---- MODULE Spec2Model ----
(***************************************************************************)
(* talon-utilities: clip.py (write path) and unclip.py (read path).        *)
(*                                                                         *)
(* Text is a sequence of one-character strings.  CR and LF stand for the   *)
(* carriage return and the line feed, BAD for a byte that is not valid     *)
(* UTF-8.  None stands for Python's None.                                  *)
(***************************************************************************)
EXTENDS Integers, Sequences, FiniteSets, TLC

VARIABLES
    WAYLAND_DISPLAY,  \* os.environ.get("WAYLAND_DISPLAY"): None or a string
    DISPLAY,          \* os.environ.get("DISPLAY"): None or a string
    PATH,             \* the programs shutil.which finds on the search path
    fallback,         \* the file /tmp/clipboard.dat: whether it exists, can be read, its bytes
    args,             \* the parsed command line
    pc,               \* position of the running program
    cmd,              \* clip main: the resolved clipboard command
    i,                \* clip: index of the file the loop is at (1-based)
    events,           \* clip: file accesses, prompts and keystrokes, in order
    writes,           \* clip: invocations of copy_to_system_clipboard, in order
    stderr,           \* clip: messages printed to standard error, in order
    halt,             \* clip --interactive: why the walkthrough ended
    buffer_list,      \* clip --stream: the fragments appended so far
    total_files,      \* clip --stream
    total_bytes,      \* clip --stream
    exit_status,      \* the process exit status, -1 while running
    tried,            \* unclip: the readers invoked, in order
    data,             \* unclip: the text detect_and_read returned
    stdout,           \* unclip: what was printed to standard output, in order
    terminal,         \* getch: the attributes of the terminal standard input is on
    old_settings,     \* getch: << >>, or the one result of termios.tcgetattr
    char,             \* getch: ch, None before the read
    exc,              \* getch: the exception on its way out, "none" without one
    pip_cmd,          \* pip-update: the pip command detected, None before
    pre_check_issues, \* pip-update: lines of the 'pip check' before the upgrades
    outdated,         \* pip-update: the packages pip lists as outdated
    upgrade_results,  \* pip-update: one entry per upgrade attempted
    post_check_issues,\* pip-update: lines of the 'pip check' after the upgrades
    commands,         \* pip-update: the pip commands run, in order
    report_file       \* pip-update: << >>, or the one report written

vars == <<WAYLAND_DISPLAY, DISPLAY, PATH, fallback, args, pc, cmd, i, events,
          writes, stderr, halt, buffer_list, total_files, total_bytes,
          exit_status, tried, data, stdout, terminal, old_settings, char, exc,
          pip_cmd, pre_check_issues, outdated, upgrade_results, post_check_issues,
          commands, report_file>>

getch_vars == <<terminal, old_settings, char, exc>>
pip_vars == <<pip_cmd, pre_check_issues, outdated, upgrade_results, post_check_issues,
              commands, report_file>>

None == "<None>"
CR == "<CR>"
LF == "<LF>"
BAD == "<BAD>"

\* pip-update is not running.
NoPipRun ==
    /\ pip_cmd = None
    /\ pre_check_issues = << >>
    /\ outdated = << >>
    /\ upgrade_results = << >>
    /\ post_check_issues = << >>
    /\ commands = << >>
    /\ report_file = << >>

(***************************************************************************)
(* Bounds.                                                                 *)
(***************************************************************************)
MaxFiles == 2   \* longest file list explored
MaxLen == 2     \* longest Fallback Store content explored

RECURSIVE SeqsUpTo(_, _)
SeqsUpTo(S, n) ==
    IF n = 0 THEN {<< >>}
    ELSE LET shorter == SeqsUpTo(S, n - 1)
         IN  shorter \cup {Append(s, x) : s \in {t \in shorter : Len(t) = n - 1}, x \in S}

(***************************************************************************)
(* The environment both programs read.                                     *)
(***************************************************************************)
EnvValues == {None, "", "set"}

\* Python truthiness of os.environ.get(name): unset and empty are both false.
Truthy(v) == v # None /\ v # ""

WriteTools == {"wl-copy", "xclip", "xsel"}
Programs == WriteTools \cup {"wl-paste"}

which(prog) == prog \in PATH

FALLBACK_CLIP_FILE == "/tmp/clipboard.dat"

(***************************************************************************)
(* clip.py: get_clipboard_command                                          *)
(***************************************************************************)
XclipCmd == <<"xclip", "-selection", "clipboard">>
XselCmd == <<"xsel", "--clipboard", "--input">>
WlCopyCmd == <<"wl-copy">>
\* get_clipboard_command returning None: no argument list at all
NoCmd == << >>

\* get_clipboard_command asking for DISPLAY before WAYLAND_DISPLAY
get_clipboard_command_display_first(preferred) ==
    IF preferred # None /\ preferred # ""
    THEN IF preferred = "xclip" /\ which("xclip") THEN XclipCmd
         ELSE IF preferred = "xsel" /\ which("xsel") THEN XselCmd
         ELSE IF preferred = "wl-copy" /\ which("wl-copy") THEN WlCopyCmd
         ELSE NoCmd
    ELSE IF Truthy(DISPLAY)
         THEN IF which("xclip") THEN XclipCmd
              ELSE IF which("xsel") THEN XselCmd
              ELSE IF which("wl-copy") THEN WlCopyCmd
              ELSE NoCmd
    ELSE IF Truthy(WAYLAND_DISPLAY)
         THEN IF which("wl-copy") THEN WlCopyCmd
              ELSE IF which("xclip") THEN XclipCmd
              ELSE IF which("xsel") THEN XselCmd
              ELSE NoCmd
    ELSE NoCmd

\* get_clipboard_command falling through to the environment when the preferred
\* utility is missing
get_clipboard_command_falls_back(preferred) ==
    IF preferred = "xclip" /\ which("xclip") THEN XclipCmd
    ELSE IF preferred = "xsel" /\ which("xsel") THEN XselCmd
    ELSE IF preferred = "wl-copy" /\ which("wl-copy") THEN WlCopyCmd
    ELSE IF Truthy(WAYLAND_DISPLAY)
         THEN IF which("wl-copy") THEN WlCopyCmd
              ELSE IF which("xclip") THEN XclipCmd
              ELSE IF which("xsel") THEN XselCmd
              ELSE NoCmd
    ELSE IF Truthy(DISPLAY)
         THEN IF which("xclip") THEN XclipCmd
              ELSE IF which("xsel") THEN XselCmd
              ELSE IF which("wl-copy") THEN WlCopyCmd
              ELSE NoCmd
    ELSE NoCmd

\* get_clipboard_command returning the preferred utility without looking for it
get_clipboard_command_unverified(preferred) ==
    IF preferred = "xclip" THEN XclipCmd
    ELSE IF preferred = "xsel" THEN XselCmd
    ELSE IF preferred = "wl-copy" THEN WlCopyCmd
    ELSE IF Truthy(WAYLAND_DISPLAY)
         THEN IF which("wl-copy") THEN WlCopyCmd
              ELSE IF which("xclip") THEN XclipCmd
              ELSE IF which("xsel") THEN XselCmd
              ELSE NoCmd
    ELSE IF Truthy(DISPLAY)
         THEN IF which("xclip") THEN XclipCmd
              ELSE IF which("xsel") THEN XselCmd
              ELSE IF which("wl-copy") THEN WlCopyCmd
              ELSE NoCmd
    ELSE NoCmd

get_clipboard_command(preferred) ==
    IF preferred # None /\ preferred # ""
    THEN IF preferred = "xclip" /\ which("xclip") THEN XclipCmd
         ELSE IF preferred = "xsel" /\ which("xsel") THEN XselCmd
         ELSE IF preferred = "wl-copy" /\ which("wl-copy") THEN WlCopyCmd
         ELSE NoCmd
    ELSE IF Truthy(WAYLAND_DISPLAY)
         THEN IF which("wl-copy") THEN WlCopyCmd
              ELSE IF which("xclip") THEN XclipCmd
              ELSE IF which("xsel") THEN XselCmd
              ELSE NoCmd
    ELSE IF Truthy(DISPLAY)
         THEN IF which("xclip") THEN XclipCmd
              ELSE IF which("xsel") THEN XselCmd
              ELSE IF which("wl-copy") THEN WlCopyCmd
              ELSE NoCmd
    ELSE NoCmd

\* What get_clipboard_command prints to standard error.
ResolveErr(preferred) ==
    IF preferred # None /\ preferred # "" /\ get_clipboard_command(preferred) = NoCmd
    THEN <<[msg |-> "Preferred utility not found in PATH", who |-> preferred]>>
    ELSE << >>

get_installation_instructions ==
    IF Truthy(WAYLAND_DISPLAY) THEN "Please install 'wl-copy' for Wayland."
    ELSE IF Truthy(DISPLAY) THEN "Please install 'xclip' or 'xsel' for X11."
    ELSE "No graphical environment detected."

(***************************************************************************)
(* clip.py: the files named on the command line.  A stat returns a size    *)
(* and a modification time; the read that follows returns the file's       *)
(* bytes, which need not have the length the stat reported.                *)
(***************************************************************************)
Paths == {"a.txt", "d/A.txt", "b.txt"}

\* os.path.basename
basename(p) == IF p = "d/A.txt" THEN "A.txt" ELSE p

\* str.upper on the base names of Paths
upper(s) == IF s \in {"a.txt", "A.txt"} THEN "A.TXT" ELSE "B.TXT"

StatSizes == {3, 5}
ModTimes == {"01JAN2025AM000000"}
StatResults == [st_size : StatSizes, mod_ts : ModTimes]
\* File contents: nothing, a line ended by CR LF, and a line that reads like a
\* file footer of the batch format.
FileBytes == {<< >>, <<"x", CR, LF>>,
              <<"===========END A.TXT, TOTAL 3 BYTES===========", LF>>}
Keys == {"q", "Q", " "}

\* open(path, "r").read(): universal newlines, CR LF and a lone CR are read as LF.
RECURSIVE TextRead(_)
TextRead(raw) ==
    IF raw = << >> THEN << >>
    ELSE IF raw[1] = CR
         THEN IF Len(raw) >= 2 /\ raw[2] = LF
              THEN <<LF>> \o TextRead(SubSeq(raw, 3, Len(raw)))
              ELSE <<LF>> \o TextRead(Tail(raw))
    ELSE <<raw[1]>> \o TextRead(Tail(raw))

\* "".join(list)
RECURSIVE Join(_)
Join(list) == IF list = << >> THEN << >> ELSE list[1] \o Join(Tail(list))

(***************************************************************************)
(* clip.py: copy_to_system_clipboard.  The spawned program exits zero      *)
(* ("ok"), exits non-zero ("nonzero": CalledProcessError, caught, False)   *)
(* or cannot be spawned ("spawn_error": an OSError, which is not a         *)
(* SubprocessError and so leaves the function as an exception).            *)
(***************************************************************************)
CopyOutcomes == {"ok", "nonzero", "spawn_error"}

CopyErr(outcome) ==
    IF outcome = "nonzero" THEN <<[msg |-> "System clipboard copy failed", who |-> None]>>
    ELSE << >>

\* lines 97-102: how the call ends for each outcome of subprocess.run.  "True"
\* and "False" are returned; "OSError" is raised through the caller, the except
\* clause naming subprocess.SubprocessError only.
copy_to_system_clipboard(outcome) ==
    CASE outcome = "ok" -> "True"
      [] outcome = "nonzero" -> "False"
      [] outcome = "spawn_error" -> "OSError"

\* One run of the clipboard program: the command, the text on its standard
\* input, what the program did and how copy_to_system_clipboard ended.
Write(idx, text, outcome) ==
    [idx |-> idx, cmd |-> cmd, text |-> text, outcome |-> outcome,
     result |-> copy_to_system_clipboard(outcome)]

\* An entry of events: the operation, the list position of the file it is about
\* (0: not about a listed file), whether it succeeded, and what it returned.
Ev(op, idx, ok) ==
    [op |-> op, idx |-> idx, ok |-> ok, st_size |-> 0, mod_ts |-> None, text |-> << >>, ch |-> None]
StatEv(idx, stats) ==
    [Ev("stat", idx, TRUE) EXCEPT !.st_size = stats.st_size, !.mod_ts = stats.mod_ts]
ReadEv(idx, text) == [Ev("read", idx, TRUE) EXCEPT !.text = text]
KeyEv(idx, ch) == [Ev("key", idx, TRUE) EXCEPT !.ch = ch]

\* str.lower left out: only a lower-case q is recognised
lower_identity(ch) == ch

\* str.lower on the keys of Keys
lower(ch) == IF ch = "Q" THEN "q" ELSE ch

(***************************************************************************)
(* clip.py: getch.  The terminal attributes are the four flags tty.setraw  *)
(* clears that matter to a reader of one keystroke.                        *)
(***************************************************************************)
TerminalSettings == [echo : BOOLEAN, icanon : BOOLEAN, isig : BOOLEAN, opost : BOOLEAN]
Cooked == [echo |-> TRUE, icanon |-> TRUE, isig |-> TRUE, opost |-> TRUE]

\* tty.setraw(fd)
setraw(settings) ==
    [settings EXCEPT !.echo = FALSE, !.icanon = FALSE, !.isig = FALSE, !.opost = FALSE]

\* getch is not running: a terminal in its usual mode, nothing saved or read.
NoKeyRead ==
    /\ terminal = Cooked
    /\ old_settings = << >>
    /\ char = None
    /\ exc = "none"

\* main without the exit of line 283: the error is printed and the run goes on
MainResolve_goes_on ==
    /\ pc = "main"
    /\ cmd' = get_clipboard_command(args.utility)
    /\ stderr' = IF cmd' = NoCmd
                 THEN stderr \o ResolveErr(args.utility)
                      \o <<[msg |-> "No suitable clipboard utility found", who |-> get_installation_instructions]>>
                 ELSE stderr
    /\ pc' = "dispatch"
    /\ UNCHANGED <<getch_vars, pip_vars, WAYLAND_DISPLAY, DISPLAY, PATH, fallback, args, i, events, writes,
                   halt, buffer_list, total_files, total_bytes, tried, data, stdout, exit_status>>

(***************************************************************************)
(* clip.py: main                                                           *)
(***************************************************************************)
\* main, lines 279-283: resolution comes first; no command ends the run.
MainResolve ==
    /\ pc = "main"
    /\ cmd' = get_clipboard_command(args.utility)
    /\ IF cmd' = NoCmd
       THEN /\ stderr' = stderr \o ResolveErr(args.utility)
                 \o <<[msg |-> "No suitable clipboard utility found", who |-> get_installation_instructions]>>
            /\ exit_status' = 1
            /\ pc' = "exit"
       ELSE /\ stderr' = stderr
            /\ exit_status' = exit_status
            /\ pc' = "dispatch"
    /\ UNCHANGED <<getch_vars, pip_vars, WAYLAND_DISPLAY, DISPLAY, PATH, fallback, args, i, events, writes,
                   halt, buffer_list, total_files, total_bytes, tried, data, stdout>>

\* main taking the first file when several are named without a flag
MainDispatch_first_of_many ==
    /\ pc = "dispatch"
    /\ IF args.filenames # << >>
       THEN IF ~(args.interactive \/ args.stream)
            THEN pc' = "single" /\ UNCHANGED <<stderr, exit_status>>
            ELSE IF args.interactive
            THEN pc' = "interactive" /\ UNCHANGED <<stderr, exit_status>>
            ELSE pc' = "stream" /\ UNCHANGED <<stderr, exit_status>>
       ELSE pc' = "stdin" /\ UNCHANGED <<stderr, exit_status>>
    /\ UNCHANGED <<getch_vars, pip_vars, WAYLAND_DISPLAY, DISPLAY, PATH, fallback, args, cmd, i, events, writes,
                   halt, buffer_list, total_files, total_bytes, tried, data, stdout>>

\* main, lines 285-313 and 314: which mode runs.
MainDispatch ==
    /\ pc = "dispatch"
    /\ IF args.filenames # << >>
       THEN IF Len(args.filenames) = 1 /\ ~(args.interactive \/ args.stream)
            THEN pc' = "single" /\ UNCHANGED <<stderr, exit_status>>
            ELSE IF ~(args.interactive \/ args.stream)
            THEN /\ stderr' = stderr \o <<[msg |-> "Multiple files provided", who |-> None]>>
                 /\ exit_status' = 1
                 /\ pc' = "exit"
            ELSE IF args.interactive
            THEN pc' = "interactive" /\ UNCHANGED <<stderr, exit_status>>
            ELSE pc' = "stream" /\ UNCHANGED <<stderr, exit_status>>
       ELSE pc' = "stdin" /\ UNCHANGED <<stderr, exit_status>>
    /\ UNCHANGED <<getch_vars, pip_vars, WAYLAND_DISPLAY, DISPLAY, PATH, fallback, args, cmd, i, events, writes,
                   halt, buffer_list, total_files, total_bytes, tried, data, stdout>>

\* main, lines 287-299: one file, no flag.
MainSingleFile ==
    /\ pc = "single"
    /\ LET filename == args.filenames[1] IN
       \/ \* the open or the read raises
          /\ events' = events \o <<Ev("read", 1, FALSE)>>
          /\ stderr' = stderr \o <<[msg |-> "Unable to read file", who |-> filename]>>
          /\ exit_status' = 1
          /\ writes' = writes
       \/ \E raw \in FileBytes, outcome \in CopyOutcomes :
            /\ events' = events \o <<ReadEv(1, TextRead(raw)), Ev("copy", 1, outcome = "ok")>>
            /\ writes' = Append(writes, Write(1, TextRead(raw), outcome))
            /\ stderr' = stderr \o CopyErr(outcome) \o
                 (CASE outcome = "ok" -> << >>
                    [] outcome = "nonzero" ->
                         <<[msg |-> "Clipboard copy failed", who |-> get_installation_instructions]>>
                    [] outcome = "spawn_error" -> <<[msg |-> "Traceback", who |-> None]>>)
            /\ exit_status' = IF outcome = "ok" THEN 0 ELSE 1
    /\ pc' = "exit"
    /\ UNCHANGED <<getch_vars, pip_vars, WAYLAND_DISPLAY, DISPLAY, PATH, fallback, args, cmd, i, halt,
                   buffer_list, total_files, total_bytes, tried, data, stdout>>

(***************************************************************************)
(* clip.py: process_file, one call of the --interactive loop of main       *)
(* (lines 305-309).  halt names the return that ended the loop:            *)
(* "copy_failed" (line 159), "quit" (line 164), "exception" (line 168).    *)
(***************************************************************************)
FileErr(filename) == <<[msg |-> "Error processing file", who |-> filename]>>

\* process_file called again for the same file after a key other than Q
ProcessFileOutcome_retries(filename, ev, wr, err, h) ==
    /\ events' = events \o ev
    /\ writes' = writes \o wr
    /\ stderr' = stderr \o err
    /\ halt' = h
    /\ i' = i

\* the loop going on to the next file after a file that failed
ProcessFileOutcome_skips_failed(filename, ev, wr, err, h) ==
    /\ events' = events \o ev
    /\ writes' = writes \o wr
    /\ stderr' = stderr \o err
    /\ halt' = IF h = "quit" THEN h ELSE "none"
    /\ i' = IF h = "quit" THEN i ELSE i + 1

ProcessFileOutcome(filename, ev, wr, err, h) ==
    /\ events' = events \o ev
    /\ writes' = writes \o wr
    /\ stderr' = stderr \o err
    /\ halt' = h
    /\ i' = IF h = "none" THEN i + 1 ELSE i

process_file(filename) ==
    \/ \* os.stat raises
       ProcessFileOutcome(filename, <<Ev("stat", i, FALSE)>>, << >>, FileErr(filename), "exception")
    \/ \* open or read raises (the stat result was only printed)
       \E stats \in StatResults :
          ProcessFileOutcome(filename, <<Ev("stat", i, TRUE), Ev("read", i, FALSE)>>, << >>,
                             FileErr(filename), "exception")
    \/ \E stats \in StatResults, raw \in FileBytes :
         LET text == TextRead(raw)
             read == <<Ev("stat", i, TRUE), ReadEv(i, text)>>
         IN  \/ \* the clipboard program exits non-zero: copy_to_system_clipboard is False
                ProcessFileOutcome(filename, read \o <<Ev("copy", i, FALSE)>>,
                                   <<Write(i, text, "nonzero")>>,
                                   CopyErr("nonzero") \o
                                     <<[msg |-> "Clipboard copy failed for", who |-> filename]>>,
                                   "copy_failed")
             \/ \* the clipboard program cannot be spawned: caught by except Exception
                ProcessFileOutcome(filename, read \o <<Ev("copy", i, FALSE)>>,
                                   <<Write(i, text, "spawn_error")>>,
                                   FileErr(filename), "exception")
             \/ \* copied and prompted, getch raises
                ProcessFileOutcome(filename,
                                   read \o <<Ev("copy", i, TRUE), Ev("prompt", i, TRUE)>>,
                                   <<Write(i, text, "ok")>>, FileErr(filename), "exception")
             \/ \* copied, prompted, one key read
                \E ch \in Keys :
                   ProcessFileOutcome(filename,
                                      read \o <<Ev("copy", i, TRUE), Ev("prompt", i, TRUE),
                                                KeyEv(i, ch)>>,
                                      <<Write(i, text, "ok")>>, << >>,
                                      IF lower(ch) = "q" THEN "quit" ELSE "none")

ProcessFile ==
    /\ pc = "interactive"
    /\ halt = "none"
    /\ i <= Len(args.filenames)
    /\ process_file(args.filenames[i])
    /\ UNCHANGED <<getch_vars, pip_vars, WAYLAND_DISPLAY, DISPLAY, PATH, fallback, args, pc, cmd, buffer_list,
                   total_files, total_bytes, exit_status, tried, data, stdout>>

\* main leaving the walkthrough with status 1 when a file stopped it
InteractiveExit_reports_halt ==
    /\ pc = "interactive"
    /\ halt # "none" \/ i > Len(args.filenames)
    /\ halt' = IF halt = "none" THEN "exhausted" ELSE halt
    /\ exit_status' = IF halt \in {"none", "quit"} THEN 0 ELSE 1
    /\ pc' = "exit"
    /\ UNCHANGED <<getch_vars, pip_vars, WAYLAND_DISPLAY, DISPLAY, PATH, fallback, args, cmd, i, events, writes,
                   stderr, buffer_list, total_files, total_bytes, tried, data, stdout>>

\* main, lines 306-309: the loop is over (break or list exhausted), sys.exit(0).
InteractiveExit ==
    /\ pc = "interactive"
    /\ halt # "none" \/ i > Len(args.filenames)
    /\ halt' = IF halt = "none" THEN "exhausted" ELSE halt
    /\ exit_status' = 0
    /\ pc' = "exit"
    /\ UNCHANGED <<getch_vars, pip_vars, WAYLAND_DISPLAY, DISPLAY, PATH, fallback, args, cmd, i, events, writes,
                   stderr, buffer_list, total_files, total_bytes, tried, data, stdout>>

(***************************************************************************)
(* clip.py: process_files_stream, with the exit of main (lines 310-313).   *)
(***************************************************************************)
Line(s) == <<s, LF>>

batch_header ==
    Line("========BEGIN BATCH TRANSFER FROM user@host:/cwd AT 02JAN2025PM120000========")
file_header(file_basename, mod_ts) ==
    Line("===========BEGIN " \o file_basename \o ", MODIFIED " \o mod_ts \o "===========")
file_footer(file_basename, size) ==
    Line("===========END " \o file_basename \o ", TOTAL " \o ToString(size) \o " BYTES===========")
batch_footer(files, bytes) ==
    Line("========END BATCH TRANSFER, TOTAL " \o ToString(files) \o " FILES, "
         \o ToString(bytes) \o " bytes========")
ending_line == Line("============================================================")

\* Two of the 21 closing remarks random.choice draws from.
witty_quips == {"(Transfer complete: the world is now your clipboard.)",
                "THANK YOU FOR USING TALON UTILITIES - NO CHARGE TO CALLING PARTY"}

\* lines 176-183
StreamBegin ==
    /\ pc = "stream"
    /\ buffer_list' = <<batch_header>>
    /\ total_files' = 0
    /\ total_bytes' = 0
    /\ pc' = "stream_loop"
    /\ UNCHANGED <<getch_vars, pip_vars, WAYLAND_DISPLAY, DISPLAY, PATH, fallback, args, cmd, i, events, writes,
                   stderr, halt, exit_status, tried, data, stdout>>

\* a file that cannot be read is left out of the batch
StreamFileFails_skips(filename, ev) ==
    /\ events' = events \o ev
    /\ stderr' = stderr \o FileErr(filename)
    /\ i' = i + 1
    /\ UNCHANGED <<exit_status, pc, buffer_list, total_files, total_bytes>>

\* lines 192-194, and main lines 311-312: the file cannot be stat'ed or read,
\* process_files_stream returns False and main exits 1.
StreamFileFails(filename, ev) ==
    /\ events' = events \o ev
    /\ stderr' = stderr \o FileErr(filename)
    /\ exit_status' = 1
    /\ pc' = "exit"
    /\ UNCHANGED <<i, buffer_list, total_files, total_bytes>>

\* the footer appended before the content
FileFragments_footer_first(filename, stats, content) ==
    LET file_basename == upper(basename(filename))
        size == stats.st_size
    IN  <<file_header(file_basename, stats.mod_ts),
          file_footer(file_basename, size),
          content \o <<LF>>>>

\* the footer stating the length of the text read
FileFragments_content_length(filename, stats, content) ==
    LET file_basename == upper(basename(filename))
        size == Len(content)
    IN  <<file_header(file_basename, stats.mod_ts),
          content \o <<LF>>,
          file_footer(file_basename, size)>>

\* the content appended without the newline after it
FileFragments_without_newline(filename, stats, content) ==
    LET file_basename == upper(basename(filename))
        size == stats.st_size
    IN  <<file_header(file_basename, stats.mod_ts),
          content,
          file_footer(file_basename, size)>>

\* lines 198-203: the three fragments one file adds to buffer_list
FileFragments(filename, stats, content) ==
    LET file_basename == upper(basename(filename))
        size == stats.st_size
    IN  <<file_header(file_basename, stats.mod_ts),
          content \o <<LF>>,
          file_footer(file_basename, size)>>

\* lines 185-203: one iteration of the loop over filenames
StreamFile ==
    /\ pc = "stream_loop"
    /\ i <= Len(args.filenames)
    /\ LET filename == args.filenames[i] IN
       \/ \* os.stat raises
          StreamFileFails(filename, <<Ev("stat", i, FALSE)>>)
       \/ \* open or read raises
          \E stats \in StatResults :
             StreamFileFails(filename, <<StatEv(i, stats), Ev("read", i, FALSE)>>)
       \/ \E stats \in StatResults, raw \in FileBytes :
            LET content == TextRead(raw) IN
                /\ events' = events \o <<StatEv(i, stats), ReadEv(i, content)>>
                /\ total_files' = total_files + 1
                /\ total_bytes' = total_bytes + stats.st_size
                /\ buffer_list' = buffer_list \o FileFragments(filename, stats, content)
                /\ i' = i + 1
                /\ UNCHANGED <<stderr, exit_status, pc>>
    /\ UNCHANGED <<getch_vars, pip_vars, WAYLAND_DISPLAY, DISPLAY, PATH, fallback, args, cmd, writes, halt,
                   tried, data, stdout>>

\* lines 205-239, and main lines 311-313
StreamFinish ==
    /\ pc = "stream_loop"
    /\ i > Len(args.filenames)
    /\ \E quip \in witty_quips, outcome \in CopyOutcomes :
         /\ buffer_list' = buffer_list \o <<batch_footer(total_files, total_bytes),
                                           Line(quip), ending_line>>
         /\ writes' = Append(writes, Write(0, Join(buffer_list'), outcome))
         /\ events' = Append(events, Ev("copy", 0, outcome = "ok"))
         /\ stderr' = stderr \o CopyErr(outcome) \o
              (CASE outcome = "ok" -> << >>
                 [] outcome = "nonzero" ->
                      <<[msg |-> "Clipboard copy failed in stream mode", who |-> None]>>
                 [] outcome = "spawn_error" -> <<[msg |-> "Traceback", who |-> None]>>)
         /\ exit_status' = IF outcome = "ok" THEN 0 ELSE 1
    /\ pc' = "exit"
    /\ UNCHANGED <<getch_vars, pip_vars, WAYLAND_DISPLAY, DISPLAY, PATH, fallback, args, cmd, i, halt,
                   total_files, total_bytes, tried, data, stdout>>

\* main copying whatever standard input gave, the empty text included
MainStdin_copies_empty ==
    /\ pc = "stdin"
    /\ \/ /\ events' = Append(events, Ev("isatty", 0, TRUE))
          /\ exit_status' = 1
          /\ UNCHANGED <<writes, stderr>>
       \/ \E raw \in FileBytes, outcome \in CopyOutcomes :
            LET text == TextRead(raw) IN
               /\ events' = events \o <<Ev("isatty", 0, FALSE), ReadEv(0, text),
                                         Ev("copy", 0, outcome = "ok")>>
               /\ writes' = Append(writes, Write(0, text, outcome))
               /\ stderr' = stderr \o CopyErr(outcome)
               /\ exit_status' = IF outcome = "ok" THEN 0 ELSE 1
    /\ pc' = "exit"
    /\ UNCHANGED <<getch_vars, pip_vars, WAYLAND_DISPLAY, DISPLAY, PATH, fallback, args, cmd, i, halt,
                   buffer_list, total_files, total_bytes, tried, data, stdout>>

\* main, lines 314-327: no file named, the text comes from standard input.
MainStdin ==
    /\ pc = "stdin"
    /\ \/ \* sys.stdin.isatty(): print the help
          /\ events' = Append(events, Ev("isatty", 0, TRUE))
          /\ exit_status' = 1
          /\ UNCHANGED <<writes, stderr>>
       \/ \E raw \in FileBytes :
            LET text == TextRead(raw)
                read == <<Ev("isatty", 0, FALSE), ReadEv(0, text)>>
            IN
            IF text = << >>
            THEN /\ events' = events \o read
                 /\ stderr' = stderr \o <<[msg |-> "No text to copy", who |-> None]>>
                 /\ exit_status' = 1
                 /\ UNCHANGED writes
            ELSE \E outcome \in CopyOutcomes :
                   /\ events' = events \o read \o <<Ev("copy", 0, outcome = "ok")>>
                   /\ writes' = Append(writes, Write(0, text, outcome))
                   /\ stderr' = stderr \o CopyErr(outcome) \o
                        (CASE outcome = "ok" -> << >>
                           [] outcome = "nonzero" ->
                                <<[msg |-> "Clipboard copy failed",
                                   who |-> get_installation_instructions]>>
                           [] outcome = "spawn_error" -> <<[msg |-> "Traceback", who |-> None]>>)
                   /\ exit_status' = IF outcome = "ok" THEN 0 ELSE 1
    /\ pc' = "exit"
    /\ UNCHANGED <<getch_vars, pip_vars, WAYLAND_DISPLAY, DISPLAY, PATH, fallback, args, cmd, i, halt,
                   buffer_list, total_files, total_bytes, tried, data, stdout>>

(***************************************************************************)
(* clip.py as a program.  Every environment, search path and preference    *)
(* is explored with file lists of at most one file; the longer file lists  *)
(* are explored where xclip, xsel and wl-copy are all installed, no        *)
(* preference is given and WAYLAND_DISPLAY is unset (DISPLAY decides       *)
(* between xclip and no command).                                          *)
(***************************************************************************)
ClipArgs == [utility : {None} \cup WriteTools, interactive : BOOLEAN, stream : BOOLEAN,
             filenames : SeqsUpTo(Paths, MaxFiles)]

AbsentFile == [exists |-> FALSE, readable |-> FALSE, bytes |-> << >>]

Init ==
    /\ WAYLAND_DISPLAY \in EnvValues
    /\ DISPLAY \in EnvValues
    /\ PATH \in SUBSET WriteTools
    /\ args \in ClipArgs
    /\ \/ Len(args.filenames) <= 1
       \/ WAYLAND_DISPLAY = None /\ PATH = WriteTools /\ args.utility = None
    /\ fallback = AbsentFile
    /\ pc = "main"
    /\ cmd = NoCmd
    /\ i = 1
    /\ events = << >>
    /\ writes = << >>
    /\ stderr = << >>
    /\ halt = "none"
    /\ buffer_list = << >>
    /\ total_files = 0
    /\ total_bytes = 0
    /\ exit_status = -1
    /\ tried = << >>
    /\ data = << >>
    /\ stdout = << >>
    /\ NoKeyRead
    /\ NoPipRun

Next ==
    \/ MainResolve
    \/ MainDispatch
    \/ MainSingleFile
    \/ ProcessFile
    \/ InteractiveExit
    \/ StreamBegin
    \/ StreamFile
    \/ StreamFinish
    \/ MainStdin

Spec == Init /\ [][Next]_vars

(***************************************************************************)
(* unclip.py.  pc walks detect_and_read: "detect", then the readers the    *)
(* session calls for ("wl", "xclip", "xsel"), then "fallback"; "write" is  *)
(* main after detect_and_read returned.                                    *)
(***************************************************************************)
ReadTools == {"wl-paste", "xclip", "xsel"}

\* What a spawned reader does: it cannot be spawned, exits non-zero, or exits
\* zero having written these bytes.
ReadFailures == {"spawn_error", "nonzero"}
OutBytes == {<< >>, <<BAD>>, <<"x", BAD, CR>>}

\* bytes.decode("utf-8", "ignore"): invalid bytes are dropped.
RECURSIVE Decode(_)
Decode(bytes) ==
    IF bytes = << >> THEN << >>
    ELSE IF bytes[1] = BAD THEN Decode(Tail(bytes))
    ELSE <<bytes[1]>> \o Decode(Tail(bytes))

is_wayland_session == Truthy(WAYLAND_DISPLAY)
is_x11_session == Truthy(DISPLAY)

Diag(msg) == [kind |-> "diag", msg |-> msg, text |-> << >>]
Say(msg) == IF args.verbose THEN <<Diag(msg)>> ELSE << >>
Attempt(reader, spawned, text) == [reader |-> reader, spawned |-> spawned, text |-> text]

\* ReaderReturns going on to the next reader even with text in hand
ReaderReturns_keeps_going(reader, spawned, text, said, next) ==
    /\ tried' = Append(tried, Attempt(reader, spawned, text))
    /\ stdout' = stdout \o said
    /\ data' = text
    /\ pc' = next

\* One reader of the cascade has returned text: a non-empty text is what
\* detect_and_read returns, an empty one moves to the next step.
ReaderReturns(reader, spawned, text, said, next) ==
    /\ tried' = Append(tried, Attempt(reader, spawned, text))
    /\ stdout' = stdout \o said
    /\ data' = text
    /\ pc' = IF text # << >> THEN "write" ELSE next

\* a reader without its try block: the failure of the program leaves the reader
\* as an exception
SpawnReader_uncaught(reader, next) ==
    \/ \E failure \in ReadFailures :
         /\ tried' = Append(tried, Attempt(reader, TRUE, << >>))
         /\ pc' = "raised"
         /\ UNCHANGED <<stdout, data>>
    \/ \E out \in OutBytes :
         ReaderReturns(reader, TRUE, Decode(out),
                       Say("[INFO] Data successfully read using " \o reader), next)

\* read_with_xclip, read_with_xsel, and read_with_wlcopy past its which():
\* the try block around Popen, communicate and decode.
SpawnReader(reader, next) ==
    \/ \E failure \in ReadFailures :
         ReaderReturns(reader, TRUE, << >>, Say("[WARNING] " \o reader \o " read failed"), next)
    \/ \E out \in OutBytes :
         ReaderReturns(reader, TRUE, Decode(out),
                       Say("[INFO] Data successfully read using " \o reader), next)

UnclipFrame == UNCHANGED <<getch_vars, pip_vars, WAYLAND_DISPLAY, DISPLAY, PATH, fallback, args, cmd, i, events,
                           writes, stderr, halt, buffer_list, total_files, total_bytes>>

\* detect_and_read, lines 154-167, 185, 199
DetectSession ==
    /\ pc = "detect"
    /\ stdout' = stdout \o
         (IF is_wayland_session THEN Say("[INFO] Detected Wayland session.")
          ELSE IF is_x11_session THEN Say("[INFO] Detected X11 session.")
          ELSE Say("[INFO] No GUI session detected."))
    /\ pc' = IF is_wayland_session THEN "wl"
             ELSE IF is_x11_session THEN "xclip"
             ELSE "fallback"
    /\ UNCHANGED <<tried, data, exit_status>>
    /\ UnclipFrame

\* detect_and_read, lines 168-170, with read_with_wlcopy
ReadWayland ==
    /\ pc = "wl"
    /\ IF ~which("wl-paste")
       THEN ReaderReturns("wl-paste", FALSE, << >>,
                          Say("[WARNING] 'wl-paste' not found in PATH."), "xclip")
       ELSE SpawnReader("wl-paste", "xclip")
    /\ UNCHANGED exit_status
    /\ UnclipFrame

\* detect_and_read, lines 172-175 and 186-189, with read_with_xclip
ReadXclip ==
    /\ pc = "xclip"
    /\ IF which("xclip")
       THEN SpawnReader("xclip", "xsel")
       ELSE pc' = "xsel" /\ UNCHANGED <<tried, data, stdout>>
    /\ UNCHANGED exit_status
    /\ UnclipFrame

\* a cascade that leaves xsel out
ReadXsel_left_out ==
    /\ pc = "xsel"
    /\ pc' = "fallback"
    /\ UNCHANGED <<tried, data, stdout, exit_status>>
    /\ UnclipFrame

\* detect_and_read, lines 177-180 and 191-194, with read_with_xsel
ReadXsel ==
    /\ pc = "xsel"
    /\ IF which("xsel")
       THEN SpawnReader("xsel", "fallback")
       ELSE pc' = "fallback" /\ UNCHANGED <<tried, data, stdout>>
    /\ UNCHANGED exit_status
    /\ UnclipFrame

\* read_from_fallback, the return value and what it prints
read_from_fallback ==
    IF ~fallback.exists THEN << >>
    ELSE IF ~fallback.readable THEN << >>
    ELSE TextRead(fallback.bytes)

FallbackSays ==
    IF ~fallback.exists
    THEN Say("[ERROR] Fallback file " \o FALLBACK_CLIP_FILE \o " does not exist.")
    ELSE IF ~fallback.readable THEN Say("[ERROR] Could not read from fallback file")
    ELSE Say("[INFO] Read fallback data from " \o FALLBACK_CLIP_FILE)

\* read_from_fallback removing the file once it was read
ReadFallback_consumes_file ==
    /\ pc = "fallback"
    /\ tried' = Append(tried, Attempt("fallback", FALSE, read_from_fallback))
    /\ data' = read_from_fallback
    /\ stdout' = stdout \o FallbackSays
    /\ pc' = "write"
    /\ fallback' = AbsentFile
    /\ UNCHANGED <<getch_vars, pip_vars, exit_status, WAYLAND_DISPLAY, DISPLAY, PATH, args, cmd, i, events, writes,
                   stderr, halt, buffer_list, total_files, total_bytes>>

\* detect_and_read, lines 182, 196, 200: return read_from_fallback(verbose)
ReadFallback ==
    /\ pc = "fallback"
    /\ tried' = Append(tried, Attempt("fallback", FALSE, read_from_fallback))
    /\ data' = read_from_fallback
    /\ stdout' = stdout \o FallbackSays
    /\ pc' = "write"
    /\ UNCHANGED exit_status
    /\ UnclipFrame

\* main, lines 223-227
UnclipWrite ==
    /\ pc = "write"
    /\ stdout' = stdout
         \o (IF data = << >> THEN Say("[WARNING] Clipboard/fallback is empty or could not be read.")
             ELSE << >>)
         \o <<[kind |-> "data", msg |-> "", text |-> data]>>
    /\ exit_status' = 0
    /\ pc' = "exit"
    /\ UNCHANGED <<tried, data>>
    /\ UnclipFrame

FallbackStates ==
    {AbsentFile, [exists |-> TRUE, readable |-> FALSE, bytes |-> << >>]}
    \cup {[exists |-> TRUE, readable |-> TRUE, bytes |-> b] : b \in SeqsUpTo({"x", CR, LF}, MaxLen)}

InitUnclip ==
    /\ WAYLAND_DISPLAY \in EnvValues
    /\ DISPLAY \in EnvValues
    /\ PATH \in SUBSET Programs
    /\ args \in [verbose : BOOLEAN]
    /\ fallback \in FallbackStates
    /\ pc = "detect"
    /\ cmd = NoCmd
    /\ i = 1
    /\ events = << >>
    /\ writes = << >>
    /\ stderr = << >>
    /\ halt = "none"
    /\ buffer_list = << >>
    /\ total_files = 0
    /\ total_bytes = 0
    /\ exit_status = -1
    /\ tried = << >>
    /\ data = << >>
    /\ stdout = << >>
    /\ NoKeyRead
    /\ NoPipRun

NextUnclip ==
    \/ DetectSession
    \/ ReadWayland
    \/ ReadXclip
    \/ ReadXsel
    \/ ReadFallback
    \/ UnclipWrite

SpecUnclip == InitUnclip /\ [][NextUnclip]_vars

(***************************************************************************)
(* clip and unclip run one after the other, any number of times.  Each run *)
(* is a new process: it starts from its own arguments and environment, and *)
(* of all the state only the file /tmp/clipboard.dat is carried over.      *)
(* clip runs are explored with at most one file named.                     *)
(***************************************************************************)
StoredFiles ==
    {AbsentFile,
     [exists |-> TRUE, readable |-> FALSE, bytes |-> << >>],
     [exists |-> TRUE, readable |-> TRUE, bytes |-> <<"x", CR, LF>>]}

\* Between two runs nothing of a process is left.
NoProcess ==
    /\ WAYLAND_DISPLAY' = None
    /\ DISPLAY' = None
    /\ PATH' = {}
    /\ args' = [verbose |-> FALSE]

\* What a process starts with, apart from its arguments and environment.
ProcessStart ==
    /\ cmd' = NoCmd
    /\ i' = 1
    /\ events' = << >>
    /\ writes' = << >>
    /\ stderr' = << >>
    /\ halt' = "none"
    /\ buffer_list' = << >>
    /\ total_files' = 0
    /\ total_bytes' = 0
    /\ exit_status' = -1
    /\ tried' = << >>
    /\ data' = << >>
    /\ stdout' = << >>

\* clip.py, lines 329-330: a clip process is started
RunClip ==
    /\ pc = "shell"
    /\ WAYLAND_DISPLAY' \in EnvValues
    /\ DISPLAY' \in EnvValues
    /\ PATH' \in SUBSET WriteTools
    /\ args' \in {a \in ClipArgs : Len(a.filenames) <= 1}
    /\ pc' = "main"
    /\ ProcessStart
    /\ UNCHANGED <<fallback, getch_vars, pip_vars>>

\* unclip.py, lines 229-230: an unclip process is started
RunUnclip ==
    /\ pc = "shell"
    /\ WAYLAND_DISPLAY' \in EnvValues
    /\ DISPLAY' \in EnvValues
    /\ PATH' \in SUBSET ReadTools
    /\ args' \in [verbose : BOOLEAN]
    /\ pc' = "detect"
    /\ ProcessStart
    /\ UNCHANGED <<fallback, getch_vars, pip_vars>>

\* sys.exit of clip.py's main, the return of unclip.py's main: the process is
\* gone, its exit status and output with it.
ProcessExit ==
    /\ pc = "exit"
    /\ pc' = "shell"
    /\ NoProcess
    /\ ProcessStart
    /\ UNCHANGED <<fallback, getch_vars, pip_vars>>

InitRuns ==
    /\ fallback \in StoredFiles
    /\ pc = "shell"
    /\ WAYLAND_DISPLAY = None
    /\ DISPLAY = None
    /\ PATH = {}
    /\ args = [verbose |-> FALSE]
    /\ cmd = NoCmd
    /\ i = 1
    /\ events = << >>
    /\ writes = << >>
    /\ stderr = << >>
    /\ halt = "none"
    /\ buffer_list = << >>
    /\ total_files = 0
    /\ total_bytes = 0
    /\ exit_status = -1
    /\ tried = << >>
    /\ data = << >>
    /\ stdout = << >>
    /\ NoKeyRead
    /\ NoPipRun

NextRuns ==
    \/ RunClip
    \/ RunUnclip
    \/ ProcessExit
    \/ MainResolve
    \/ MainDispatch
    \/ MainSingleFile
    \/ ProcessFile
    \/ InteractiveExit
    \/ StreamBegin
    \/ StreamFile
    \/ StreamFinish
    \/ MainStdin
    \/ DetectSession
    \/ ReadWayland
    \/ ReadXclip
    \/ ReadXsel
    \/ ReadFallback
    \/ UnclipWrite

SpecRuns == InitRuns /\ [][NextRuns]_vars

(***************************************************************************)
(* getch step by step (clip.py, lines 129-136), from a terminal in any     *)
(* mode.  pc: "getch" on entry, "try" once the settings are saved, "read"  *)
(* once the terminal is raw, "finally" with ch or an exception in hand,    *)
(* then "returned" or "raised".  termios.tcsetattr is taken to succeed on  *)
(* the descriptor termios.tcgetattr has just succeeded on.                 *)
(***************************************************************************)
GetchFrame ==
    UNCHANGED <<pip_vars, WAYLAND_DISPLAY, DISPLAY, PATH, fallback, args, cmd, i, events, writes,
                stderr, halt, buffer_list, total_files, total_bytes, exit_status, tried,
                data, stdout>>

\* line 130: old_settings = termios.tcgetattr(fd)
GetchSave ==
    /\ pc = "getch"
    /\ \/ \* standard input is not a terminal: termios.error, nothing saved
          /\ exc' = "tcgetattr"
          /\ pc' = "raised"
          /\ UNCHANGED old_settings
       \/ /\ old_settings' = <<terminal>>
          /\ pc' = "try"
          /\ UNCHANGED exc
    /\ UNCHANGED <<terminal, char>>
    /\ GetchFrame

\* line 132: tty.setraw(fd)
GetchSetraw ==
    /\ pc = "try"
    /\ \/ /\ exc' = "setraw"
          /\ pc' = "finally"
          /\ UNCHANGED terminal
       \/ /\ terminal' = setraw(terminal)
          /\ pc' = "read"
          /\ UNCHANGED exc
    /\ UNCHANGED <<old_settings, char>>
    /\ GetchFrame

\* line 133: ch = sys.stdin.read(1); the empty string at end of input
GetchRead ==
    /\ pc = "read"
    /\ \/ /\ exc' = "read"
          /\ UNCHANGED char
       \/ /\ char' \in Keys \cup {""}
          /\ UNCHANGED exc
    /\ pc' = "finally"
    /\ UNCHANGED <<terminal, old_settings>>
    /\ GetchFrame

\* the settings put back only when the read went through
GetchFinally_after_read_only ==
    /\ pc = "finally"
    /\ terminal' = IF exc = "none" THEN old_settings[1] ELSE terminal
    /\ pc' = IF exc = "none" THEN "returned" ELSE "raised"
    /\ UNCHANGED <<old_settings, char, exc>>
    /\ GetchFrame

\* lines 134-136: the finally clause, then return ch or the exception goes on
GetchFinally ==
    /\ pc = "finally"
    /\ terminal' = old_settings[1]
    /\ pc' = IF exc = "none" THEN "returned" ELSE "raised"
    /\ UNCHANGED <<old_settings, char, exc>>
    /\ GetchFrame

InitGetch ==
    /\ terminal \in TerminalSettings
    /\ old_settings = << >>
    /\ char = None
    /\ exc = "none"
    /\ pc = "getch"
    /\ WAYLAND_DISPLAY = None
    /\ DISPLAY = "set"
    /\ PATH = WriteTools
    /\ fallback = AbsentFile
    /\ args = [utility |-> None, interactive |-> TRUE, stream |-> FALSE,
               filenames |-> <<"a.txt">>]
    /\ cmd = XclipCmd
    /\ i = 1
    /\ events = << >>
    /\ writes = << >>
    /\ stderr = << >>
    /\ halt = "none"
    /\ buffer_list = << >>
    /\ total_files = 0
    /\ total_bytes = 0
    /\ exit_status = -1
    /\ tried = << >>
    /\ data = << >>
    /\ stdout = << >>
    /\ NoPipRun

NextGetch ==
    \/ GetchSave
    \/ GetchSetraw
    \/ GetchRead
    \/ GetchFinally

SpecGetch == InitGetch /\ [][NextGetch]_vars

(***************************************************************************)
(* pip-update.py.  Package names and output lines are sequences of         *)
(* characters; the output of a pip command is the list of its lines.       *)
(***************************************************************************)
MaxPkgs == 2    \* longest list of outdated packages explored

PkgNames == {<<"a", "c">>, <<"C">>, <<"z">>}

\* str.lower on the characters of names and lines
str_lower(str) ==
    [k \in 1..Len(str) |->
        CASE str[k] = "A" -> "a"
          [] str[k] = "C" -> "c"
          [] str[k] = "E" -> "e"
          [] str[k] = "G" -> "g"
          [] str[k] = "I" -> "i"
          [] str[k] = "N" -> "n"
          [] str[k] = "R" -> "r"
          [] str[k] = "W" -> "w"
          [] OTHER -> str[k]]

\* sub in str
Contains(sub, str) ==
    \E k \in 1..(Len(str) - Len(sub) + 1) : SubSeq(str, k, k + Len(sub) - 1) = sub

NoBrokenLine == <<"N", "o", " ", "b", "r", "o", "k", "e", "n", " ", "r", "e", "q", "u", "i",
                  "r", "e", "m", "e", "n", "t", "s", " ", "f", "o", "u", "n", "d", ".">>
ConflictAC == <<"A", "C", " ", "1", " ", "r", "e", "q", "u", "i", "r", "e", "s", " ", "x">>
ConflictZ == <<"z", " ", "2", " ", "r", "e", "q", "u", "i", "r", "e", "s", " ", "y">>
WarningLine == <<"W", "A", "R", "N", "I", "N", "G">>
\* line 107, the exception's own text left out
ErrorLine == <<"E", "r", "r", "o", "r", " ", "r", "u", "n", "n", "i", "n", "g", " ",
               "p", "i", "p", " ", "c", "h", "e", "c", "k", ":">>

\* What 'pip check' can do: exit 0 with its one line of good news or (pip
\* configured quiet) with nothing, exit 1 with conflict lines, or not run at all.
PipCheckRuns ==
    {[raised |-> FALSE, returncode |-> 0, stdout |-> <<NoBrokenLine>>, stderr |-> << >>],
     [raised |-> FALSE, returncode |-> 0, stdout |-> << >>, stderr |-> << >>],
     [raised |-> FALSE, returncode |-> 1, stdout |-> <<ConflictAC>>, stderr |-> << >>],
     [raised |-> FALSE, returncode |-> 1, stdout |-> <<ConflictZ>>, stderr |-> <<WarningLine>>],
     [raised |-> TRUE, returncode |-> 1, stdout |-> << >>, stderr |-> << >>]}

\* pip_check_issues, lines 97-107
pip_check_issues(run) ==
    IF run.raised THEN <<ErrorLine>>
    ELSE IF run.returncode # 0 THEN run.stdout \o run.stderr
    ELSE run.stdout \o run.stderr

\* One pip command run as a child process: what was run and the exit status it
\* ended with, -1 when the program could not be started.
PipRun(op, pkg, returncode) ==
    [pip |-> pip_cmd, op |-> op, pkg |-> pkg, returncode |-> returncode]

\* The --skip options of a command line, in order, each with the names that
\* follow it: none, one option with one or two names, or two options as in
\* the docstring's example "--skip pip --skip setuptools".
SkipOptions ==
    {<< >>, <<{<<"a", "c">>}>>, <<{<<"z">>}>>, <<{<<"a", "c">>, <<"z">>}>>,
     <<{<<"a", "c">>}, {<<"z">>}>>}

\* parse_args for --skip (nargs="+", default=[], action store): every
\* occurrence of the option replaces the value of the one before it.
parse_skip(options) == IF options = << >> THEN {} ELSE options[Len(options)]

\* argv_skip is the command line as typed, the other fields what parse_args
\* returns for it.
PipArgs ==
    {[argv_skip |-> options, skip |-> parse_skip(options), dry_run |-> dry_run,
      force |-> force, report |-> report] :
        options \in SkipOptions, dry_run \in BOOLEAN, force \in BOOLEAN,
        report \in {None, "out.json"}}

\* generate_report, lines 405-417: what is written, when the file can be written
generate_report(pre_issues, post_issues, outdated_packages, results, forced) ==
    <<[pre_check_issues |-> pre_issues, post_check_issues |-> post_issues,
       outdated_packages |-> outdated_packages, upgrade_results |-> results,
       forced_ignore_pre_upgrade_conflicts |-> forced]>>

PipFrame ==
    UNCHANGED <<getch_vars, WAYLAND_DISPLAY, DISPLAY, PATH, fallback, cmd, events, writes,
                halt, buffer_list, total_files, total_bytes, tried, data, stdout>>

\* main, lines 259-267: detect_pip_executable, then collect_env_metadata
PipDetect ==
    /\ pc = "pip_main"
    /\ \/ /\ pip_cmd' \in {"pip", "pip3", "python3 -m pip"}
          /\ pc' = "pre_check"
          /\ UNCHANGED <<stderr, exit_status>>
       \/ /\ stderr' = Append(stderr, [msg |-> "Error detecting pip", who |-> None])
          /\ exit_status' = 1
          /\ pc' = "exit"
          /\ UNCHANGED pip_cmd
    /\ UNCHANGED <<args, i, pre_check_issues, outdated, upgrade_results, post_check_issues,
                   commands, report_file>>
    /\ PipFrame

\* main going on to the upgrades whatever the first 'pip check' said
PipPreCheck_never_aborts ==
    /\ pc = "pre_check"
    /\ \E run \in PipCheckRuns :
         /\ commands' = Append(commands, PipRun("check", << >>,
                                                IF run.raised THEN -1 ELSE run.returncode))
         /\ pre_check_issues' = pip_check_issues(run)
         /\ pc' = "list"
         /\ UNCHANGED <<report_file, exit_status>>
    /\ UNCHANGED <<args, i, stderr, pip_cmd, outdated, upgrade_results, post_check_issues>>
    /\ PipFrame

\* main, lines 269-282: the 'pip check' before the upgrades
PipPreCheck ==
    /\ pc = "pre_check"
    /\ \E run \in PipCheckRuns :
         /\ commands' = Append(commands, PipRun("check", << >>,
                                                IF run.raised THEN -1 ELSE run.returncode))
         /\ pre_check_issues' = pip_check_issues(run)
         /\ IF pre_check_issues' # << >> /\ ~args.force
            THEN /\ report_file' = IF args.report # None
                                   THEN generate_report(pre_check_issues', << >>, << >>, << >>, FALSE)
                                   ELSE report_file
                 /\ exit_status' = 1
                 /\ pc' = "exit"
            ELSE /\ pc' = "list"
                 /\ UNCHANGED <<report_file, exit_status>>
    /\ UNCHANGED <<args, i, stderr, pip_cmd, outdated, upgrade_results, post_check_issues>>
    /\ PipFrame

\* The names pip list can report; the empty one is an item without a name.
ItemNames == PkgNames \cup {<< >>}

\* main, lines 284-298: get_outdated_packages
PipListOutdated ==
    /\ pc = "list"
    /\ \/ \* RuntimeError: both listings failed
          /\ commands' = Append(commands, PipRun("list", << >>, 1))
          /\ stderr' = Append(stderr, [msg |-> "Error listing outdated packages", who |-> None])
          /\ exit_status' = 1
          /\ pc' = "exit"
          /\ UNCHANGED <<outdated, report_file>>
       \/ \* pip cannot be spawned: the OSError is caught nowhere
          /\ commands' = Append(commands, PipRun("list", << >>, -1))
          /\ stderr' = Append(stderr, [msg |-> "Traceback", who |-> None])
          /\ exit_status' = 1
          /\ pc' = "exit"
          /\ UNCHANGED <<outdated, report_file>>
       \/ \E names \in SeqsUpTo(ItemNames, MaxPkgs) :
            /\ commands' = Append(commands, PipRun("list", << >>, 0))
            /\ outdated' = [k \in 1..Len(names) |-> [name |-> names[k]]]
            /\ IF names = << >>
               THEN /\ report_file' = IF args.report # None
                                      THEN generate_report(pre_check_issues, << >>, << >>, << >>,
                                                           args.force)
                                      ELSE report_file
                    /\ exit_status' = 0
                    /\ pc' = "exit"
               ELSE /\ pc' = "upgrade"
                    /\ UNCHANGED <<report_file, exit_status>>
            /\ UNCHANGED stderr
    /\ UNCHANGED <<args, i, pip_cmd, pre_check_issues, upgrade_results, post_check_issues>>
    /\ PipFrame

UpgradeOutcomes == {"ok", "nonzero", "spawn_error"}

result_entry(pkg_name, status) ==
    [name |-> pkg_name, status |-> status,
     error_msg |-> IF status = "FAILED" THEN <<"Failed to upgrade">> ELSE << >>]

\* main, lines 301-327: one iteration of the loop over outdated
PipUpgradeNext ==
    /\ pc = "upgrade"
    /\ i <= Len(outdated)
    /\ LET pkg_name == outdated[i].name IN
       IF pkg_name = << >> \/ pkg_name \in args.skip \/ args.dry_run
       THEN /\ i' = i + 1
            /\ UNCHANGED <<commands, upgrade_results, stderr, exit_status, pc>>
       ELSE \E outcome \in UpgradeOutcomes :
            /\ commands' = Append(commands,
                                  PipRun("install --upgrade", pkg_name,
                                         CASE outcome = "ok" -> 0
                                           [] outcome = "nonzero" -> 1
                                           [] OTHER -> -1))
            /\ IF outcome = "spawn_error"
                 THEN \* upgrade_package catches CalledProcessError only
                      /\ stderr' = Append(stderr, [msg |-> "Traceback", who |-> None])
                      /\ exit_status' = 1
                      /\ pc' = "exit"
                      /\ UNCHANGED <<i, upgrade_results>>
                 ELSE /\ upgrade_results' =
                            Append(upgrade_results,
                                   result_entry(pkg_name, IF outcome = "ok" THEN "OK" ELSE "FAILED"))
                      /\ i' = i + 1
                      /\ UNCHANGED <<stderr, exit_status, pc>>
    /\ UNCHANGED <<args, pip_cmd, pre_check_issues, outdated, post_check_issues, report_file>>
    /\ PipFrame

\* MarkWeird comparing the name and the line as they are written
MarkWeird_case_sensitive(results, line) ==
    [k \in 1..Len(results) |->
        IF results[k].status = "OK" /\ Contains(results[k].name, line)
        THEN [results[k] EXCEPT !.status = "WEIRD", !.error_msg = line]
        ELSE results[k]]

\* lines 335-339 for one line: every result still OK whose name is in the line
MarkWeird(results, line) ==
    [k \in 1..Len(results) |->
        IF results[k].status = "OK" /\ Contains(str_lower(results[k].name), str_lower(line))
        THEN [results[k] EXCEPT !.status = "WEIRD", !.error_msg = line]
        ELSE results[k]]

RECURSIVE MarkAllWeird(_, _)
MarkAllWeird(results, issues) ==
    IF issues = << >> THEN results
    ELSE MarkAllWeird(MarkWeird(results, issues[1]), Tail(issues))

\* lines 342-345
MarkWarnings(results) ==
    [k \in 1..Len(results) |->
        IF results[k].status = "OK"
        THEN [results[k] EXCEPT !.status = "WARNINGS",
                                !.error_msg = <<"Other environment issues detected.">>]
        ELSE results[k]]

\* lines 333-345
MarkResults(results, issues) ==
    IF issues # << >> THEN MarkWarnings(MarkAllWeird(results, issues)) ELSE results

\* main, lines 329-381: the 'pip check' after the upgrades, the marking, the
\* summary and the report; main returns.
PipPostCheck ==
    /\ pc = "upgrade"
    /\ i > Len(outdated)
    /\ \E run \in PipCheckRuns :
         /\ commands' = Append(commands, PipRun("check", << >>,
                                                IF run.raised THEN -1 ELSE run.returncode))
         /\ post_check_issues' = pip_check_issues(run)
         /\ upgrade_results' = MarkResults(upgrade_results, post_check_issues')
         /\ report_file' = IF args.report # None
                           THEN generate_report(pre_check_issues, post_check_issues', outdated,
                                                upgrade_results', args.force)
                           ELSE report_file
    /\ exit_status' = 0
    /\ pc' = "exit"
    /\ UNCHANGED <<args, i, stderr, pip_cmd, pre_check_issues, outdated>>
    /\ PipFrame

InitPip ==
    /\ args \in PipArgs
    /\ pc = "pip_main"
    /\ NoPipRun
    /\ WAYLAND_DISPLAY = None
    /\ DISPLAY = None
    /\ PATH = {}
    /\ fallback = AbsentFile
    /\ cmd = NoCmd
    /\ i = 1
    /\ events = << >>
    /\ writes = << >>
    /\ stderr = << >>
    /\ halt = "none"
    /\ buffer_list = << >>
    /\ total_files = 0
    /\ total_bytes = 0
    /\ exit_status = -1
    /\ tried = << >>
    /\ data = << >>
    /\ stdout = << >>
    /\ NoKeyRead

NextPip ==
    \/ PipDetect
    \/ PipPreCheck
    \/ PipListOutdated
    \/ PipUpgradeNext
    \/ PipPostCheck

SpecPip == InitPip /\ [][NextPip]_vars

(***************************************************************************)
(* Properties of the resolver (clip.py, Spec).                             *)
(***************************************************************************)
\* The documented candidate order of each display environment.
DocumentedOrder ==
    IF Truthy(WAYLAND_DISPLAY) THEN <<"wl-copy", "xclip", "xsel">>
    ELSE IF Truthy(DISPLAY) THEN <<"xclip", "xsel", "wl-copy">>
    ELSE << >>

Invocation(tool) ==
    CASE tool = "wl-copy" -> <<"wl-copy">>
      [] tool = "xclip" -> <<"xclip", "-selection", "clipboard">>
      [] tool = "xsel" -> <<"xsel", "--clipboard", "--input">>

FirstPresent(order) ==
    IF \E k \in 1..Len(order) : order[k] \in PATH
    THEN Invocation(order[CHOOSE k \in 1..Len(order) :
                            /\ order[k] \in PATH
                            /\ \A j \in 1..(k - 1) : order[j] \notin PATH])
    ELSE NoCmd

\* C1: with no preference, main's resolution returns the invocation of the first
\* candidate present on the search path, in the order wl-copy, xclip, xsel when
\* WAYLAND_DISPLAY is set (DISPLAY set or not), xclip, xsel, wl-copy when only
\* DISPLAY is set, and no command when neither is set, whatever is installed.
C1_PriorityOrder ==
    (pc # "main" /\ args.utility = None) => cmd = FirstPresent(DocumentedOrder)

\* Both signals set, wl-copy missing: the second Wayland candidate is returned.
C1_Witness ==
    /\ pc # "main"
    /\ args.utility = None
    /\ Truthy(WAYLAND_DISPLAY)
    /\ Truthy(DISPLAY)
    /\ PATH = {"xclip", "xsel"}
    /\ cmd = <<"xclip", "-selection", "clipboard">>

\* C2: a preferred utility that is not on the search path resolves to no command,
\* whatever else is installed and whatever the environment; the run exits 1
\* having spawned no clipboard program and touched no file.
C2_NoFallback ==
    (pc # "main" /\ args.utility \in WriteTools /\ args.utility \notin PATH)
        => /\ cmd = NoCmd
           /\ pc = "exit"
           /\ exit_status = 1
           /\ writes = << >>
           /\ events = << >>
           /\ \E k \in 1..Len(stderr) :
                 /\ stderr[k].msg = "Preferred utility not found in PATH"
                 /\ stderr[k].who = args.utility

\* xsel preferred and missing while xclip and wl-copy are installed under X11.
C2_Witness ==
    /\ pc = "exit"
    /\ args.utility = "xsel"
    /\ PATH = {"xclip", "wl-copy"}
    /\ Truthy(DISPLAY)
    /\ cmd = NoCmd
    /\ exit_status = 1

(***************************************************************************)
(* Properties of the interactive walkthrough (clip.py, Spec).              *)
(***************************************************************************)
NFiles == Len(args.filenames)
InteractiveMode == args.filenames # << >> /\ args.interactive
StreamMode == args.filenames # << >> /\ args.stream /\ ~args.interactive

EventsOf(j) == SelectSeq(events, LAMBDA e : e.idx = j)
WritesOf(j) == SelectSeq(writes, LAMBDA w : w.idx = j)
Ops(seq) == [k \in 1..Len(seq) |-> <<seq[k].op, seq[k].ok>>]

Handled == <<<<"stat", TRUE>>, <<"read", TRUE>>, <<"copy", TRUE>>, <<"prompt", TRUE>>,
             <<"key", TRUE>>>>

\* What one pass over one file may leave in events: nothing, or a prefix of
\* stat, read, copy, prompt, key that stops at the first failure.
Passes ==
    {<< >>,
     <<<<"stat", FALSE>>>>,
     <<<<"stat", TRUE>>, <<"read", FALSE>>>>,
     <<<<"stat", TRUE>>, <<"read", TRUE>>, <<"copy", FALSE>>>>,
     SubSeq(Handled, 1, 4),
     Handled}

QuitKey(ch) == ch \in {"q", "Q"}
QuitAfter(k) ==
    \E p \in 1..Len(events) :
       events[p].op = "key" /\ events[p].idx = k /\ QuitKey(events[p].ch)
FailedAt(j) ==
    \E p \in 1..Len(events) :
       events[p].idx = j /\ events[p].op \in {"stat", "read", "copy"} /\ ~events[p].ok
Untouched(j) == EventsOf(j) = << >> /\ WritesOf(j) = << >>
CopiedOnce(j) ==
    /\ Len(WritesOf(j)) = 1
    /\ WritesOf(j)[1].outcome = "ok"
    /\ WritesOf(j)[1].cmd = cmd
    /\ Ops(EventsOf(j)) = Handled
    /\ WritesOf(j)[1].text = EventsOf(j)[2].text

\* C5: in the interactive walkthrough, once the key read after file k is q or Q,
\* files 1..k have each been copied to the clipboard, files k+1..n are never
\* stat'ed, read or copied, and the walkthrough ends normally (the quit return,
\* exit status 0).
C5_QuitStopsWalkthrough ==
    InteractiveMode =>
       \A k \in 1..NFiles :
          QuitAfter(k) =>
             /\ \A j \in 1..k : CopiedOnce(j)
             /\ \A j \in (k + 1)..NFiles : Untouched(j)
             /\ halt = "quit"
             /\ pc \in {"interactive", "exit"}
             /\ pc = "exit" => exit_status = 0

\* Two files, Q after the first: the second is untouched.
C5_Witness ==
    /\ InteractiveMode
    /\ NFiles = 2
    /\ pc = "exit"
    /\ QuitAfter(1)
    /\ EventsOf(1)[5].ch = "Q"
    /\ Len(writes) = 1
    /\ EventsOf(2) = << >>

\* C6: the walkthrough handles the files strictly in list order, without retry
\* and without skipping: the Writer is invoked at most once per list position, a
\* file is started only after every file before it was stat'ed, read, copied and
\* followed by one key other than Q, and every successful copy is followed by
\* exactly one prompt.
C6_InOrderNoRetryNoSkip ==
    InteractiveMode =>
       /\ \A p, q \in 1..Len(events) : p < q => events[p].idx <= events[q].idx
       /\ \A j \in 1..NFiles :
             /\ Ops(EventsOf(j)) \in Passes
             /\ Len(WritesOf(j)) <= 1
             /\ Len(WritesOf(j)) = Len(SelectSeq(EventsOf(j), LAMBDA e : e.op = "copy"))
             /\ EventsOf(j) # << >> =>
                   \A m \in 1..(j - 1) :
                      /\ Ops(EventsOf(m)) = Handled
                      /\ ~QuitKey(EventsOf(m)[5].ch)
       /\ \A p \in 1..Len(events) :
             (events[p].op = "copy" /\ events[p].ok) =>
                /\ p < Len(events)
                /\ events[p + 1].op = "prompt"
                /\ events[p + 1].idx = events[p].idx
       /\ \A w \in 1..Len(writes) : writes[w].idx \in 1..NFiles

\* Two files, each handled and followed by SPACE; the list is exhausted.
C6_Witness ==
    /\ InteractiveMode
    /\ NFiles = 2
    /\ pc = "exit"
    /\ halt = "exhausted"
    /\ \A j \in 1..2 : Ops(EventsOf(j)) = Handled /\ EventsOf(j)[5].ch = " "
    /\ Len(writes) = 2

\* C7: if the stat, the read or the clipboard write of file j fails, the
\* walkthrough halts there: no prompt is issued for file j and no later file is
\* stat'ed, read or copied.
C7_FailureHalts ==
    InteractiveMode =>
       \A j \in 1..NFiles :
          FailedAt(j) =>
             /\ \A p \in 1..Len(events) :
                   events[p].idx = j => events[p].op \notin {"prompt", "key"}
             /\ \A m \in (j + 1)..NFiles : Untouched(m)
             /\ halt \in {"copy_failed", "exception"}
             /\ i = j

\* The clipboard write of the first of two files fails: the second is untouched.
C7_Witness ==
    /\ InteractiveMode
    /\ NFiles = 2
    /\ pc = "exit"
    /\ Ops(EventsOf(1)) = <<<<"stat", TRUE>>, <<"read", TRUE>>, <<"copy", FALSE>>>>
    /\ Len(writes) = 1
    /\ EventsOf(2) = << >>

(***************************************************************************)
(* Properties of the batch serializer (clip.py, Spec).                     *)
(***************************************************************************)
StreamDone == StreamMode /\ pc = "exit" /\ writes # << >>

StreamFailedAt(j) ==
    \E p \in 1..Len(events) :
       events[p].idx = j /\ events[p].op \in {"stat", "read"} /\ ~events[p].ok

\* C8: stream mode is all or nothing: when a file cannot be stat'ed or read the
\* serialization stops at that file, no later file is accessed, the Writer is
\* never invoked and the run exits with status 1.
C8_StreamAllOrNothing ==
    StreamMode =>
       \A j \in 1..NFiles :
          StreamFailedAt(j) =>
             /\ ~events[Len(events)].ok
             /\ events[Len(events)].idx = j
             /\ \A m \in (j + 1)..NFiles : EventsOf(m) = << >>
             /\ writes = << >>
             /\ pc = "exit"
             /\ exit_status = 1
             /\ stderr = <<[msg |-> "Error processing file", who |-> args.filenames[j]]>>

\* The second of two files cannot be read after the first went into the buffer.
C8_Witness ==
    /\ StreamMode
    /\ NFiles = 2
    /\ pc = "exit"
    /\ Len(buffer_list) = 4
    /\ Ops(EventsOf(2)) = <<<<"stat", TRUE>>, <<"read", FALSE>>>>
    /\ exit_status = 1

\* The upper-cased base name of each path of Paths.
NAME_UPPER == ("a.txt" :> "A.TXT") @@ ("d/A.txt" :> "A.TXT") @@ ("b.txt" :> "B.TXT")

\* C9: for a list of n readable files the buffer consists of exactly one batch
\* header, then for each file in input order (not sorted, equal base names kept)
\* its header, the text read from it and its footer, then one batch footer, one
\* closing remark and the decorative line last; the Writer gets these joined.
C9_BufferLayout ==
    StreamDone =>
       /\ Len(buffer_list) = 3 * NFiles + 4
       /\ buffer_list[1] = batch_header
       /\ \A k \in 1..NFiles :
             LET name == NAME_UPPER[args.filenames[k]] IN
             /\ Ops(EventsOf(k)) = SubSeq(Handled, 1, 2)
             /\ buffer_list[3 * k - 1] = file_header(name, EventsOf(k)[1].mod_ts)
             /\ buffer_list[3 * k] = EventsOf(k)[2].text \o <<LF>>
             /\ buffer_list[3 * k + 1] \in {file_footer(name, size) : size \in StatSizes}
       /\ buffer_list[3 * NFiles + 2]
             \in {batch_footer(files, bytes) : files \in 0..NFiles, bytes \in 0..(5 * NFiles)}
       /\ buffer_list[3 * NFiles + 3] \in {Line(quip) : quip \in witty_quips}
       /\ buffer_list[3 * NFiles + 4] = ending_line
       /\ Len(writes) = 1
       /\ writes[1].text = Join(buffer_list)

\* d/A.txt before a.txt: the same base name twice, in the order given.
C9_Witness ==
    /\ StreamDone
    /\ args.filenames = <<"d/A.txt", "a.txt">>
    /\ writes[1].outcome = "ok"
    /\ exit_status = 0
    /\ buffer_list[2] = <<"===========BEGIN A.TXT, MODIFIED 01JAN2025AM000000===========", LF>>
    /\ buffer_list[5] = buffer_list[2]
    /\ buffer_list[3] = <<LF>>
    /\ buffer_list[6] = <<"x", LF, LF>>

RECURSIVE StatSum(_)
StatSum(k) == IF k = 0 THEN 0 ELSE StatSum(k - 1) + EventsOf(k)[1].st_size

\* C10: each file footer states the size the stat before the read returned, not
\* the length of the text read, and the batch footer states TOTAL n FILES and the
\* sum of the n stat sizes.
C10_FootersStateStatSizes ==
    StreamDone =>
       /\ \A k \in 1..NFiles :
             buffer_list[3 * k + 1]
                = file_footer(NAME_UPPER[args.filenames[k]], EventsOf(k)[1].st_size)
       /\ buffer_list[3 * NFiles + 2] = batch_footer(NFiles, StatSum(NFiles))
       /\ total_files = NFiles
       /\ total_bytes = StatSum(NFiles)

\* a.txt stat'ed at 5 bytes and read as empty text, b.txt stat'ed at 3 bytes.
C10_Witness ==
    /\ StreamDone
    /\ args.filenames = <<"a.txt", "b.txt">>
    /\ EventsOf(1)[1].st_size = 5
    /\ EventsOf(1)[2].text = << >>
    /\ buffer_list[4] = <<"===========END A.TXT, TOTAL 5 BYTES===========", LF>>
    /\ buffer_list[7] = <<"===========END B.TXT, TOTAL 3 BYTES===========", LF>>
    /\ buffer_list[8] = <<"========END BATCH TRANSFER, TOTAL 2 FILES, 8 bytes========", LF>>

(***************************************************************************)
(* Properties of the reader cascade (unclip.py, SpecUnclip).               *)
(***************************************************************************)
\* The cascade each display environment calls for.
Cascade ==
    IF Truthy(WAYLAND_DISPLAY) THEN <<"wl-paste", "xclip", "xsel", "fallback">>
    ELSE IF Truthy(DISPLAY) THEN <<"xclip", "xsel", "fallback">>
    ELSE <<"fallback">>

CascadeSteps == {Cascade[k] : k \in 1..Len(Cascade)}
Pos(reader) == CHOOSE k \in 1..Len(Cascade) : Cascade[k] = reader
TriedReaders == {tried[k].reader : k \in 1..Len(tried)}
Returned == pc \in {"write", "exit"}

\* C3: detect_and_read goes through the cascade of its environment in order; it
\* moves past a reader only when that reader's program is missing, failed or gave
\* empty text; the first non-empty text is returned and no later reader is
\* invoked; without a display signal only the Fallback Store is read.
C3_CascadeOrder ==
    /\ \A k \in 1..Len(tried) :
          /\ tried[k].reader \in CascadeSteps
          /\ tried[k].spawned => tried[k].reader \in PATH \cap ReadTools
          /\ \A p \in 1..(Pos(tried[k].reader) - 1) :
                Cascade[p] \in TriedReaders \/ Cascade[p] \notin PATH
    /\ \A k \in 1..(Len(tried) - 1) :
          /\ Pos(tried[k].reader) < Pos(tried[k + 1].reader)
          /\ tried[k].text = << >>
    /\ (tried # << >> /\ tried[Len(tried)].text # << >>)
          => Returned /\ data = tried[Len(tried)].text
    /\ Returned
          => /\ tried # << >>
             /\ data = tried[Len(tried)].text
             /\ data # << >> \/ tried[Len(tried)].reader = "fallback"

\* Wayland: wl-paste and xclip were spawned and gave nothing, xsel gave the text
\* that was returned, the Fallback Store was not read.
C3_Witness ==
    /\ pc = "exit"
    /\ Truthy(WAYLAND_DISPLAY)
    /\ Len(tried) = 3
    /\ tried[1].reader = "wl-paste" /\ tried[1].spawned
    /\ tried[2].reader = "xclip"
    /\ tried[3].reader = "xsel"
    /\ data = <<"x", CR>>

\* C4: when every transport reader failed or gave empty text, detect_and_read
\* returns exactly the bytes of the Fallback Store file if it exists and can be
\* read, and empty text if the file is absent; in verbose mode the absent file is
\* reported by a diagnostic that names it.
C4_FallbackExact ==
    (Returned /\ tried # << >> /\ tried[Len(tried)].reader = "fallback")
        => /\ (fallback.exists /\ fallback.readable) => data = fallback.bytes
           /\ ~fallback.exists =>
                 /\ data = << >>
                 /\ args.verbose =>
                       \E k \in 1..Len(stdout) :
                          stdout[k].msg = "[ERROR] Fallback file /tmp/clipboard.dat does not exist."

(***************************************************************************)
(* Properties of the Writer (clip.py, Spec).                               *)
(***************************************************************************)
\* C11: copy_to_system_clipboard returns True exactly when the clipboard program
\* was spawned and exited with status zero, and returns False both when it
\* exited non-zero and when it could not be spawned: no call ends with an
\* exception leaving the function.
C11_WriterReturnsResult ==
    \A k \in 1..Len(writes) :
       /\ writes[k].result \in {"True", "False"}
       /\ (writes[k].result = "True") <=> (writes[k].outcome = "ok")

(***************************************************************************)
(* Properties of the error output of clip (clip.py, Spec).                 *)
(***************************************************************************)
WriteFailed == \E k \in 1..Len(writes) : writes[k].outcome # "ok"
NoTransport == pc # "main" /\ cmd = NoCmd
GuidancePrinted == \E k \in 1..Len(stderr) : stderr[k].who = get_installation_instructions

\* C12: in every mode of clip (standard input, single file, interactive,
\* stream), a run that ended after a failed clipboard write or without a
\* resolved command has printed the installation guidance of the current display
\* environment.
C12_GuidanceOnFailure ==
    (pc = "exit" /\ (WriteFailed \/ NoTransport)) => GuidancePrinted

(***************************************************************************)
(* Properties of the Fallback Store across runs (clip.py and unclip.py,    *)
(* SpecRuns).                                                              *)
(***************************************************************************)
\* C13: no step of any clip or unclip run, in any sequence of runs, in any
\* environment and whatever the clipboard programs do, changes the Fallback
\* Store file: it is not created, overwritten, truncated or deleted; reading it
\* does not delete it and a failed clipboard write does not write it.
C13_FallbackUntouched == [][fallback' = fallback]_vars

\* An unclip run has returned the text of the stored file, which is still there.
C13_Witness ==
    /\ pc = "exit"
    /\ tried # << >>
    /\ tried[Len(tried)].reader = "fallback"
    /\ data = <<"x", LF>>
    /\ fallback = [exists |-> TRUE, readable |-> TRUE, bytes |-> <<"x", CR, LF>>]

(***************************************************************************)
(* Properties of the keystroke read (clip.py, SpecGetch).                  *)
(***************************************************************************)
\* C14: whenever getch has saved the terminal settings, the terminal is in those
\* settings again once getch is left, whether it returns the character read or
\* tty.setraw or the one-character read raised.  getch returns only with a
\* character read, and is left with nothing saved only when termios.tcgetattr
\* itself raised.
C14_TerminalRestored ==
    /\ (pc \in {"returned", "raised"} /\ old_settings # << >>) => terminal = old_settings[1]
    /\ pc = "returned" => old_settings # << >> /\ exc = "none" /\ char # None
    /\ (pc = "raised" /\ old_settings = << >>) => exc = "tcgetattr"

\* The read raised with the terminal raw; the echoing, line-buffered mode of
\* before is back.
C14_Witness ==
    /\ pc = "raised"
    /\ exc = "read"
    /\ old_settings = <<Cooked>>
    /\ terminal = Cooked

(***************************************************************************)
(* Reading a batch back (clip.py, Spec).  The repository has no parser;    *)
(* SplitAtMarkers is the splitting the round trip is stated with: a file   *)
(* begins at a BEGIN line and ends at the next END line, the name is read  *)
(* from the BEGIN line, the size from the END line, and the content is     *)
(* what lies between, less the newline the serializer adds.                *)
(***************************************************************************)
UpperNames == {NAME_UPPER[p] : p \in Paths}
BeginLines == {file_header(n, ts)[1] : n \in UpperNames, ts \in ModTimes}
EndLines == {file_footer(n, size)[1] : n \in UpperNames, size \in StatSizes}
NameOfBegin(line) == CHOOSE n \in UpperNames : \E ts \in ModTimes : file_header(n, ts)[1] = line
SizeOfEnd(line) == CHOOSE size \in StatSizes : \E n \in UpperNames : file_footer(n, size)[1] = line
StripNewline(c) == IF c # << >> /\ c[Len(c)] = LF THEN SubSeq(c, 1, Len(c) - 1) ELSE c

\* text from position k on; open is << >> outside a file and holds the name and
\* the content so far inside one; acc is what was recovered before k.
RECURSIVE SplitAtMarkers(_, _, _, _)
SplitAtMarkers(text, k, open, acc) ==
    IF k > Len(text) THEN acc
    ELSE IF text[k] \in BeginLines
    THEN SplitAtMarkers(text, k + 2, <<[name |-> NameOfBegin(text[k]), content |-> << >>]>>, acc)
    ELSE IF text[k] \in EndLines
    THEN IF open = << >> THEN SplitAtMarkers(text, k + 2, open, acc)
         ELSE SplitAtMarkers(text, k + 2, << >>,
                             Append(acc, [name |-> open[1].name,
                                          size |-> SizeOfEnd(text[k]),
                                          content |-> StripNewline(open[1].content)]))
    ELSE IF open = << >> THEN SplitAtMarkers(text, k + 1, open, acc)
    ELSE SplitAtMarkers(text, k + 1,
                        <<[open[1] EXCEPT !.content = Append(open[1].content, text[k])]>>, acc)

Recovered == SplitAtMarkers(writes[1].text, 1, << >>, << >>)

\* What went in: per file, the upper-cased base name, the stat size, the text read.
Serialized ==
    [k \in 1..NFiles |-> [name |-> NAME_UPPER[args.filenames[k]],
                          size |-> EventsOf(k)[1].st_size,
                          content |-> EventsOf(k)[2].text]]

MarkerFree(text) == \A p \in 1..Len(text) : text[p] \notin BeginLines \cup EndLines

\* C15 as stated: for every list of readable files, splitting the text handed to
\* the Writer at its file BEGIN and END lines recovers the names (upper-cased
\* base names), sizes and contents of the files, in the order of the input list.
C15_RoundTrip == StreamDone => Recovered = Serialized

\* C15 amended: the same, for every list of readable files none of which
\* contains a line that reads like a file BEGIN or END line of the format.
C15_RoundTripMarkerFree ==
    (StreamDone /\ \A k \in 1..NFiles : MarkerFree(EventsOf(k)[2].text))
        => Recovered = Serialized

\* d/A.txt holding one line and the empty b.txt are recovered in that order.
C15_Witness ==
    /\ StreamDone
    /\ args.filenames = <<"d/A.txt", "b.txt">>
    /\ EventsOf(1)[2].text = <<"x", LF>>
    /\ EventsOf(2)[2].text = << >>
    /\ Len(Recovered) = 2
    /\ Recovered[1].name = "A.TXT" /\ Recovered[1].content = <<"x", LF>>
    /\ Recovered[2].name = "B.TXT" /\ Recovered[2].content = << >>

(***************************************************************************)
(* Properties of the resolved command (clip.py, Spec).                     *)
(***************************************************************************)
\* C16: every command get_clipboard_command returns, with a preference or
\* without, is a non-empty argument list whose first element is one of wl-copy,
\* xclip, xsel and is on the search path of that call; every command handed to
\* the Writer is that command.
C16_CommandResolvable ==
    /\ (pc # "main" /\ cmd # NoCmd) =>
          /\ Len(cmd) >= 1
          /\ cmd[1] \in WriteTools
          /\ which(cmd[1])
    /\ \A k \in 1..Len(writes) : writes[k].cmd = cmd /\ cmd # NoCmd

\* xsel preferred under Wayland with wl-copy installed too: xsel, which is on
\* the path, is the command.
C16_Witness ==
    /\ pc = "dispatch"
    /\ args.utility = "xsel"
    /\ Truthy(WAYLAND_DISPLAY)
    /\ PATH = {"xsel", "wl-copy"}
    /\ cmd = <<"xsel", "--clipboard", "--input">>

(***************************************************************************)
(* Properties of the read path as a whole (unclip.py, SpecUnclip).         *)
(***************************************************************************)
NothingRecovered == \A k \in 1..Len(tried) : tried[k].text = << >>

\* C18: the read path never raises.  Whatever the environment, the installed
\* tools, the outcome of each reader (program missing, not spawned, non-zero
\* exit, empty output) and the state of the Fallback Store (absent, unreadable,
\* populated), every step of detect_and_read is followed by a next one until it
\* returns; what it returns is a text, empty exactly when no reader recovered
\* anything; unclip then writes that text and exits with status 0.
C18_ReadNeverRaises ==
    /\ pc \in {"detect", "wl", "xclip", "xsel", "fallback", "write", "exit"}
    /\ pc # "exit" => ENABLED NextUnclip
    /\ Returned =>
          /\ data \in Seq({"x", CR, LF})
          /\ data = << >> <=> NothingRecovered
    /\ pc = "exit" =>
          /\ exit_status = 0
          /\ stdout # << >>
          /\ stdout[Len(stdout)] = [kind |-> "data", msg |-> "", text |-> data]

\* Wayland, all three readers spawned without result, the stored file there but
\* unreadable: unclip wrote the empty text and exited with status 0.
C18_Witness ==
    /\ pc = "exit"
    /\ Truthy(WAYLAND_DISPLAY)
    /\ Len(tried) = 4
    /\ \A k \in 1..3 : tried[k].spawned
    /\ fallback.exists /\ ~fallback.readable
    /\ data = << >>
    /\ exit_status = 0

(***************************************************************************)
(* Properties of main's dispatch (clip.py, Spec).                          *)
(***************************************************************************)
NoFlag == ~args.interactive /\ ~args.stream
Said(msg) == \E k \in 1..Len(stderr) : stderr[k].msg = msg

\* C19: with files named and a command resolved, (a) one file and no flag: the
\* file is read once, not stat'ed, and the text read is handed to the Writer as
\* it is, in one invocation, with no batch buffer built; (b) two or more files
\* and no flag: the run ends with status 1 and the multiple-files error, no file
\* accessed and the Writer not invoked; (c) --interactive: one Writer invocation
\* per file handled, each with the text of that one file, no batch buffer;
\* (d) --stream without --interactive: at most one Writer invocation, made once
\* every file was stat'ed and read, with the whole batch buffer.
C19_FileModeDispatch ==
    (pc = "exit" /\ NFiles >= 1 /\ cmd # NoCmd) =>
       /\ (NFiles = 1 /\ NoFlag) =>
             /\ buffer_list = << >>
             /\ \/ /\ Ops(events) = <<<<"read", FALSE>>>>
                   /\ writes = << >>
                   /\ exit_status = 1
                \/ /\ Len(events) = 2
                   /\ events[1].op = "read" /\ events[1].ok /\ events[1].idx = 1
                   /\ events[2].op = "copy"
                   /\ Len(writes) = 1
                   /\ writes[1].text = events[1].text
                   /\ exit_status = IF writes[1].outcome = "ok" THEN 0 ELSE 1
       /\ (NFiles >= 2 /\ NoFlag) =>
             /\ events = << >>
             /\ writes = << >>
             /\ buffer_list = << >>
             /\ exit_status = 1
             /\ Said("Multiple files provided")
       /\ args.interactive =>
             /\ buffer_list = << >>
             /\ \A k \in 1..Len(writes) :
                   /\ writes[k].idx \in 1..NFiles
                   /\ writes[k].text = EventsOf(writes[k].idx)[2].text
             /\ \A j \in 1..NFiles : Len(WritesOf(j)) <= 1
       /\ (args.stream /\ ~args.interactive) =>
             /\ Len(writes) <= 1
             /\ (\A j \in 1..NFiles : ~StreamFailedAt(j)) <=> Len(writes) = 1
             /\ writes # << >> =>
                   /\ writes[1].text = Join(buffer_list)
                   /\ Len(buffer_list) = 3 * NFiles + 4
                   /\ \A j \in 1..NFiles : Ops(EventsOf(j)) = SubSeq(Handled, 1, 2)

\* Two files and no flag, xclip resolved: status 1, nothing read, nothing copied.
C19_Witness ==
    /\ pc = "exit"
    /\ NFiles = 2
    /\ NoFlag
    /\ cmd = <<"xclip", "-selection", "clipboard">>
    /\ exit_status = 1
    /\ events = << >>
    /\ writes = << >>

(***************************************************************************)
(* Properties of STDIN mode (clip.py, Spec).                               *)
(***************************************************************************)
StdinMode == args.filenames = << >>
StdinGaveEmpty ==
    /\ Len(events) >= 2
    /\ events[1].op = "isatty" /\ ~events[1].ok
    /\ events[2].op = "read" /\ events[2].text = << >>

\* C20: with no file named and a command resolved, when standard input is not a
\* terminal and the text read from it is empty, clip prints the error "No text
\* to copy", exits with status 1 and does not invoke the Writer.
C20_EmptyInput ==
    (StdinMode /\ cmd # NoCmd /\ StdinGaveEmpty) =>
       /\ pc = "exit"
       /\ exit_status = 1
       /\ writes = << >>
       /\ stderr = <<[msg |-> "No text to copy", who |-> None]>>
       /\ Len(events) = 2

\* wl-copy resolved, standard input a pipe that gave nothing.
C20_Witness ==
    /\ StdinMode
    /\ cmd = <<"wl-copy">>
    /\ StdinGaveEmpty
    /\ pc = "exit"
    /\ exit_status = 1
    /\ writes = << >>

(***************************************************************************)
(* Properties of pip-update (pip-update.py, SpecPip).                      *)
(***************************************************************************)
Installs == SelectSeq(commands, LAMBDA c : c.op = "install --upgrade")
PreChecked == pc \notin {"pip_main", "pre_check"} /\ pip_cmd # None
PreConflicts ==
    \E k \in 1..Len(pre_check_issues) : pre_check_issues[k] \in {ConflictAC, ConflictZ}

\* C21: 'pip check' is run before the outdated packages are listed and before
\* any upgrade command; when that check reported conflicts and --force was not
\* given the run ends there with exit status 1 and no upgrade command is ever
\* run; with --force the run goes on to list the outdated packages.
C21_PreCheckGuardsUpgrades ==
    /\ \A k \in 1..Len(commands) :
          commands[k].op \in {"list", "install --upgrade"} => (k > 1 /\ commands[1].op = "check")
    /\ (PreChecked /\ PreConflicts /\ ~args.force) =>
          /\ pc = "exit"
          /\ exit_status = 1
          /\ Len(commands) = 1
          /\ Installs = << >>
          /\ upgrade_results = << >>
    /\ (PreChecked /\ PreConflicts /\ args.force) =>
          /\ pc = "list" \/ (Len(commands) >= 2 /\ commands[2].op = "list")
          /\ pc = "upgrade" => outdated # << >>

\* Conflicts reported, --force given: a package was upgraded all the same.
C21_Witness ==
    /\ pc = "exit"
    /\ args.force
    /\ pre_check_issues = <<ConflictAC>>
    /\ Len(Installs) = 1
    /\ upgrade_results # << >>
    /\ exit_status = 0

(***************************************************************************)
(* pip_check_issues on a conflict-free environment                         *)
(***************************************************************************)

PreCheckRan == Len(commands) >= 1 /\ commands[1].op = "check"

PostCheckRan ==
    /\ pc = "exit"
    /\ Len(commands) >= 3
    /\ commands[Len(commands)].op = "check"

Marked ==
    \E k \in 1..Len(upgrade_results) : upgrade_results[k].status \in {"WARNINGS", "WEIRD"}

\* C22: whenever 'pip check' ended with exit status 0, whatever it printed,
\* the list pip_check_issues returned is empty: the pre-upgrade check does not
\* end the run with exit status 1, and the post-upgrade check marks no result
\* WARNINGS or WEIRD.
C22_CleanCheckGivesNoIssues ==
    /\ (PreCheckRan /\ commands[1].returncode = 0) =>
          /\ pre_check_issues = << >>
          /\ ~(pc = "exit" /\ Len(commands) = 1)
    /\ (PostCheckRan /\ commands[Len(commands)].returncode = 0) =>
          /\ post_check_issues = << >>
          /\ ~Marked

(***************************************************************************)
(* The reader's cascade against the resolver's candidate order             *)
(***************************************************************************)

\* the program that reads what a write tool wrote
Counterpart(tool) == IF tool = "wl-copy" THEN "wl-paste" ELSE tool

WriteOrderAsReaders == [k \in 1..Len(DocumentedOrder) |-> Counterpart(DocumentedOrder[k])]

\* the transports the reader went through, in order, the Fallback Store left out
ReadersSpawned ==
    LET spawned == SelectSeq(tried, LAMBDA t : t.spawned) IN
    [k \in 1..Len(spawned) |-> spawned[k].reader]

OnPath(order) == SelectSeq(order, LAMBDA tool : tool \in PATH)

\* every transport gave nothing and the Fallback Store was read
CascadeExhausted ==
    /\ Returned
    /\ tried # << >>
    /\ tried[Len(tried)].reader = "fallback"

\* wl-copy and wl-paste are installed together
Paired == ("wl-copy" \in PATH) <=> ("wl-paste" \in PATH)

ResolverPick == get_clipboard_command(None)

PickLookedFor ==
    ResolverPick # NoCmd =>
        \E k \in 1..Len(ReadersSpawned) : ReadersSpawned[k] = Counterpart(ResolverPick[1])

\* C23 as stated: in every display environment the transports the reader goes
\* through are, in order, the resolver's candidates (wl-paste for wl-copy) that
\* are installed, so the transport the resolver picks for writing is one the
\* reader looks into.
C23_ReaderMirrorsResolver ==
    (CascadeExhausted /\ Paired) =>
        /\ ReadersSpawned = OnPath(WriteOrderAsReaders)
        /\ PickLookedFor

\* the transports detect_and_read goes through: the resolver's candidates under
\* a Wayland signal, the two X tools only under an X11 signal alone
ReadOrder ==
    IF Truthy(WAYLAND_DISPLAY) THEN WriteOrderAsReaders
    ELSE IF Truthy(DISPLAY) THEN SubSeq(WriteOrderAsReaders, 1, 2)
    ELSE << >>

\* C23, amended: under a Wayland signal the reader goes through the resolver's
\* candidates in the resolver's order; under an X11 signal alone it goes through
\* xclip then xsel and never wl-paste; without a signal neither side has a
\* candidate. The transport the resolver picks is looked into by the reader
\* except when it is wl-copy picked under an X11 signal alone.
C23_ReaderMirrorsResolverButWlOnX11 ==
    (CascadeExhausted /\ Paired) =>
        /\ ReadersSpawned = OnPath(ReadOrder)
        /\ (Truthy(WAYLAND_DISPLAY) \/ ResolverPick # WlCopyCmd) => PickLookedFor
        /\ (~Truthy(WAYLAND_DISPLAY) /\ ResolverPick = WlCopyCmd) => ~PickLookedFor

\* X11 signal alone with xsel and the Wayland pair installed: the resolver picks
\* xsel, the reader spawned xsel and then read the Fallback Store.
C23_Witness ==
    /\ CascadeExhausted
    /\ ~Truthy(WAYLAND_DISPLAY) /\ Truthy(DISPLAY)
    /\ PATH = {"xsel", "wl-copy", "wl-paste"}
    /\ ResolverPick = XselCmd
    /\ ReadersSpawned = <<"xsel">>

(***************************************************************************)
(* The statuses after the post-upgrade check                               *)
(***************************************************************************)

\* The upgrade commands that ended, in the order they were run: one result is
\* recorded for each, OK on exit status 0 and FAILED otherwise.
Upgraded == SelectSeq(commands, LAMBDA c : c.op = "install --upgrade" /\ c.returncode >= 0)

SameLetter(a, b) ==
    \/ a = b
    \/ {a, b} = {"a", "A"}
    \/ {a, b} = {"c", "C"}

\* name occurs in line, letter case set aside
NamedIn(name, line) ==
    \E k \in 0..(Len(line) - Len(name)) :
        \A j \in 1..Len(name) : SameLetter(line[k + j], name[j])

NamedInSome(name, issues) == \E n \in 1..Len(issues) : NamedIn(name, issues[n])

\* C24: once the post-upgrade check is done every result has one of the
\* statuses OK, FAILED, WARNINGS, WEIRD; a package whose upgrade failed is still
\* FAILED; when the check gave at least one line no result is OK, and a package
\* whose upgrade succeeded is WEIRD exactly when some line contains its name,
\* letter case set aside, and WARNINGS otherwise; when the check gave no line
\* the statuses are the ones recorded by the upgrades.
C24_StatusesAfterPostCheck ==
    PostCheckRan =>
        /\ Len(upgrade_results) = Len(Upgraded)
        /\ \A k \in 1..Len(upgrade_results) :
              LET r == upgrade_results[k]
                  failed == Upgraded[k].returncode # 0
              IN /\ r.name = Upgraded[k].pkg
                 /\ r.status \in {"OK", "FAILED", "WARNINGS", "WEIRD"}
                 /\ failed <=> r.status = "FAILED"
                 /\ (~failed /\ post_check_issues = << >>) => r.status = "OK"
                 /\ (~failed /\ post_check_issues # << >>) =>
                       /\ r.status # "OK"
                       /\ r.status = "WEIRD" <=> NamedInSome(r.name, post_check_issues)
                       /\ r.status = "WARNINGS" <=> ~NamedInSome(r.name, post_check_issues)

\* The check named AC after "ac" was upgraded and the upgrade of "z" failed:
\* "ac" is WEIRD and "z" still FAILED.
C24_Witness ==
    /\ PostCheckRan
    /\ post_check_issues = <<ConflictAC>>
    /\ Len(upgrade_results) = 2
    /\ upgrade_results[1].name = <<"a", "c">> /\ upgrade_results[1].status = "WEIRD"
    /\ upgrade_results[2].name = <<"z">> /\ upgrade_results[2].status = "FAILED"

(***************************************************************************)
(* What pip-update leaves alone                                            *)
(***************************************************************************)

\* the names given after any --skip on the command line
NamedInSkip == UNION {args.argv_skip[k] : k \in 1..Len(args.argv_skip)}

\* the outdated packages that are to be upgraded, in list order
ToUpgrade(skipped) ==
    SelectSeq(outdated, LAMBDA item : item.name # << >> /\ item.name \notin skipped)

\* C25: with --dry-run no 'pip install --upgrade' is run; no package named in
\* --skip is upgraded; an upgrade that fails is recorded FAILED for its package
\* and the run goes on through the rest of the outdated list, so that at the
\* end every package not named in --skip has been attempted, in list order.
C25_LeavesAloneAndGoesOn ==
    /\ args.dry_run => Installs = << >>
    /\ \A k \in 1..Len(Installs) : Installs[k].pkg \notin NamedInSkip
    /\ \A k \in 1..Len(Upgraded) :
          (Upgraded[k].returncode # 0 /\ k <= Len(upgrade_results)) =>
              /\ upgrade_results[k].name = Upgraded[k].pkg
              /\ upgrade_results[k].status = "FAILED"
    /\ (commands # << >> /\ commands[Len(commands)].op = "install --upgrade"
           /\ commands[Len(commands)].returncode = 1) =>
              pc = "upgrade" /\ Len(upgrade_results) = Len(Upgraded)
    /\ (PostCheckRan /\ ~args.dry_run) =>
          /\ Len(Installs) = Len(ToUpgrade(NamedInSkip))
          /\ \A k \in 1..Len(Installs) : Installs[k].pkg = ToUpgrade(NamedInSkip)[k].name

(***************************************************************************)
(* Resolution before any input is touched                                  *)
(***************************************************************************)

Resolved == pc # "main"

\* C26: clip resolves the transport before it touches any input: a stat, a
\* read of a file or of standard input, a key read or a clipboard program being
\* spawned happens only with a resolved command, and when resolution gives no
\* command the run has ended with exit status 1 with none of them done.
C26_ResolutionBeforeInput ==
    /\ (events # << >> \/ writes # << >>) => Resolved /\ cmd # NoCmd
    /\ (Resolved /\ cmd = NoCmd) =>
          /\ pc = "exit"
          /\ exit_status = 1
          /\ events = << >>
          /\ writes = << >>
          /\ buffer_list = << >>

\* xsel asked for and not installed, a file named: the run ended with status 1
\* and the file was neither stat'ed nor read.
C26_Witness ==
    /\ pc = "exit"
    /\ args.utility = "xsel" /\ "xsel" \notin PATH
    /\ args.filenames # << >>
    /\ cmd = NoCmd
    /\ exit_status = 1
    /\ events = << >>

(***************************************************************************)
(* The exit status of the walkthrough                                      *)
(***************************************************************************)

AnyFailure ==
    \E k \in 1..Len(events) : events[k].op \in {"stat", "read", "copy"} /\ ~events[k].ok

Ended == pc = "exit" /\ cmd # NoCmd

\* C27: with a transport resolved, a run in interactive mode ends with exit
\* status 0 whether every file was handled, Q was pressed, or a stat, a read or
\* a clipboard write failed; a run in single-file, standard-input or stream
\* mode in which such a failure happened ends with exit status 1.
C27_InteractiveExitsZero ==
    Ended =>
        /\ InteractiveMode => exit_status = 0
        /\ (~InteractiveMode /\ AnyFailure) => exit_status = 1

\* A walkthrough stopped by a failure, not by Q or by the end of the list,
\* that ended with status 0.
C27_Witness ==
    /\ Ended
    /\ InteractiveMode
    /\ AnyFailure
    /\ halt \notin {"none", "quit", "exhausted"}
    /\ exit_status = 0

====
